---------------------------- MODULE Spec2Model ----------------------------
(***************************************************************************)
(* A model of the minion-comms coordination kernel                         *)
(* (src/src/minion_comms/server.py).                                       *)
(*                                                                         *)
(* The state is the SQLite store: one variable per relation, plus the      *)
(* wall clock, the last call made and what it returned.  Every tool is one *)
(* action (the whole handler, from get_db() to conn.close()).  The         *)
(* statement-level specifications at the end split a handler into its      *)
(* cursor.execute / conn.commit steps and add SQLite's write lock.         *)
(***************************************************************************)
EXTENDS Integers, Sequences, FiniteSets, TLC

VARIABLES
    now,              \* datetime.datetime.now(), in seconds
    agents,           \* table agents: name -> row
    messages,         \* table messages: set of rows
    msg_seq,          \* AUTOINCREMENT counter of messages
    broadcast_reads,  \* table broadcast_reads: set of <<agent_name, message_id>>
    battle_plan,      \* table battle_plan: set of rows
    plan_seq,         \* AUTOINCREMENT counter of battle_plan
    raid_log,         \* table raid_log: sequence of rows (append only)
    tasks,            \* table tasks: set of rows
    task_seq,         \* AUTOINCREMENT counter of tasks
    file_claims,      \* table file_claims: set of rows
    file_waitlist,    \* table file_waitlist: set of rows (the id column, which
                      \* no statement reads, is left out)
    first_blocked,    \* history: the waitlist rows deleted from a path whose
                      \* waitlist has not been empty since
    flags,            \* table flags: set of rows
    call,             \* the last tool call: [op, agent, arg, id, flag]
    ret,              \* what the last tool call returned (its kind)
    out,              \* the list the last tool call returned, if it returns one
    pc,               \* statement-level runs: each process's position
    loc,              \* statement-level runs: each process's local variables
    writer,           \* statement-level runs: the connection holding the write lock
    pending           \* statement-level runs: the open transaction's tables

agentVars == <<agents>>
mailVars  == <<messages, msg_seq, broadcast_reads>>
planVars  == <<battle_plan, plan_seq>>
logVars   == <<raid_log>>
taskVars  == <<tasks, task_seq>>
fileVars  == <<file_claims, file_waitlist, first_blocked>>
flagVars  == <<flags>>
procVars  == <<pc, loc, writer, pending>>
dbVars    == <<agentVars, mailVars, planVars, logVars, taskVars, fileVars, flagVars>>
vars      == <<now, dbVars, call, ret, out, procVars>>

(***************************************************************************)
(* Bounds of the model.                                                    *)
(***************************************************************************)
MaxTime  == 1     \* the clock makes at most this many steps
MaxPlans == 2     \* battle_plan rows inserted
MaxLog   == 3     \* raid_log rows inserted
MaxTasks == 1     \* tasks rows inserted
MaxMsgs  == 2     \* a send is modelled while messages has fewer rows

\* One step of the clock: ten minutes, between the smallest staleness
\* threshold (5 min) and that of a lead (15 min).
TickSeconds == 10 * 60

(***************************************************************************)
(* Program constants.                                                      *)
(***************************************************************************)
VALID_CLASSES == {"lead", "coder", "builder", "oracle", "recon"}

BATTLE_PLAN_STATUSES == {"active", "superseded", "completed", "abandoned", "obsolete"}

RAID_LOG_PRIORITIES == {"low", "normal", "high", "critical"}

TASK_STATUSES ==
    {"open", "assigned", "in_progress", "fixed", "verified",
     "closed", "abandoned", "stale", "obsolete"}

KnownModels ==
    {"claude-opus-4-6", "claude-opus-4-5", "claude-sonnet-4-6",
     "claude-sonnet-4-5", "gemini-pro", "gemini-1.5-pro", "gemini-2.0-pro"}

CLASS_MODEL_WHITELIST(c) ==
    IF c \in {"lead", "coder"} THEN KnownModels ELSE {}

\* dict.get(agent_class): a sequence of length 0 stands for None.
CLASS_STALENESS_SECONDS(c) ==
    CASE c \in {"coder", "builder", "recon"} -> <<5 * 60>>
      [] c = "lead"                          -> <<15 * 60>>
      [] c = "oracle"                        -> <<30 * 60>>
      [] OTHER                               -> <<>>

(***************************************************************************)
(* SQL NULL / Python None: "NULL" in a text column, <<>> in a timestamp    *)
(* column (a set timestamp t is <<t>>).                                    *)
(***************************************************************************)
NULL == "NULL"
NoTime == <<>>
At(t) == <<t>>

Max(S) == CHOOSE x \in S : \A y \in S : y <= x

(***************************************************************************)
(* The last call and its result.                                           *)
(***************************************************************************)
Call(op, agent, arg, id, flag) ==
    [op |-> op, agent |-> agent, arg |-> arg, id |-> id, flag |-> flag]

NoCall == Call("none", NULL, NULL, 0, FALSE)

\* cursor.execute("UPDATE agents SET last_seen = ? WHERE name = ?")
TouchLastSeen(ag, name, t) ==
    IF name \in DOMAIN ag
    THEN [ag EXCEPT ![name].last_seen = At(t)]
    ELSE ag

\* A table whose rows are keyed by name, with one row added or replaced.
Upsert(ag, name, row) ==
    [n \in DOMAIN ag \cup {name} |-> IF n = name THEN row ELSE ag[n]]

\* SQLite gives a new row of agents the rowid max(rowid) + 1, and a scan of
\* the table returns rows in rowid order.  Only that order is read, so the
\* model keeps each row's rank in it: 1..n without gaps.
NextRowid(ag) == Cardinality(DOMAIN ag) + 1

\* ... and with one row deleted (the ranks above it close the gap).
Remove(ag, name) ==
    [n \in DOMAIN ag \ {name} |->
        IF ag[n].rowid > ag[name].rowid
        THEN [ag[n] EXCEPT !.rowid = @ - 1]
        ELSE ag[n]]

(***************************************************************************)
(* Initial state: init_db() on an absent store creates empty relations.    *)
(***************************************************************************)
NoProc == "none"

EmptyDb ==
    [agents |-> <<>>, messages |-> {}, msg_seq |-> 0, broadcast_reads |-> {},
     battle_plan |-> {}, plan_seq |-> 0, raid_log |-> <<>>, tasks |-> {},
     task_seq |-> 0, file_claims |-> {}, file_waitlist |-> {},
     flags |-> {}]

Init ==
    /\ now = 0
    /\ agents = <<>>
    /\ messages = {}
    /\ msg_seq = 0
    /\ broadcast_reads = {}
    /\ battle_plan = {}
    /\ plan_seq = 0
    /\ raid_log = <<>>
    /\ tasks = {}
    /\ task_seq = 0
    /\ file_claims = {}
    /\ file_waitlist = {}
    /\ first_blocked = {}
    /\ flags = {}
    /\ call = NoCall
    /\ ret = "none"
    /\ out = <<>>
    /\ pc = <<>>
    /\ loc = <<>>
    /\ writer = NoProc
    /\ pending = EmptyDb

\* An early return before any write (or an exception: the connection is
\* closed without a commit): the store is as it was.
Reject(r) ==
    /\ ret' = r
    /\ out' = <<>>
    /\ UNCHANGED <<now, dbVars, procVars>>

\* The wall clock advances between calls.
Tick ==
    /\ now < MaxTime * TickSeconds
    /\ now' = now + TickSeconds
    /\ UNCHANGED <<dbVars, call, ret, out, procVars>>

(***************************************************************************)
(* Agent Directory                                                         *)
(***************************************************************************)
\* A register() that replaces the whole row, as INSERT OR REPLACE would.
RegisterRowFresh(ag, agent_name, agent_class, model, transport, t) ==
    [agent_class |-> agent_class,
     model |-> IF model # "" THEN model ELSE NULL,
     last_seen |-> At(t),
     context_updated_at |-> NoTime,
     transport |-> transport,
     status |-> "waiting for work",
     rowid |-> IF agent_name \in DOMAIN ag THEN ag[agent_name].rowid ELSE NextRowid(ag)]

\* The row register() writes: INSERT ... ON CONFLICT(name) DO UPDATE.
RegisterRow(ag, agent_name, agent_class, model, transport, t) ==
    IF agent_name \in DOMAIN ag
    THEN [ag[agent_name] EXCEPT
            !.last_seen = At(t),
            !.agent_class = agent_class,
            !.model = IF model # "" THEN model ELSE @,
            !.transport = transport,
            !.status = "waiting for work"]
    ELSE [agent_class |-> agent_class,
          model |-> IF model # "" THEN model ELSE NULL,
          last_seen |-> At(t),
          context_updated_at |-> NoTime,
          transport |-> transport,
          status |-> "waiting for work",
          rowid |-> NextRowid(ag)]

\* Broadcasts older than one hour are marked read for the registering agent.
BackdatedReads(msgs, agent_name, cutoff) ==
    {<<agent_name, m.id>> : m \in {x \in msgs : x.to_agent = "all" /\ x.timestamp < cutoff}}

register(agent_name, agent_class, model, transport) ==
    /\ call' = Call("register", agent_name, agent_class, 0, FALSE)
    /\ IF transport \notin {"terminal", "daemon"}
       THEN Reject("blocked_transport")
       ELSE IF agent_class \notin VALID_CLASSES
       THEN Reject("blocked_class")
       ELSE IF /\ CLASS_MODEL_WHITELIST(agent_class) # {}
               /\ model # ""
               /\ model \notin CLASS_MODEL_WHITELIST(agent_class)
       THEN Reject("blocked_model")
       ELSE /\ agents' = Upsert(agents, agent_name,
                           RegisterRow(agents, agent_name, agent_class, model, transport, now))
            /\ broadcast_reads' =
                  broadcast_reads \cup BackdatedReads(messages, agent_name, now - 3600)
            /\ ret' = "ok"
            /\ out' = <<>>
            /\ UNCHANGED <<now, messages, msg_seq, planVars, logVars, taskVars,
                           fileVars, flagVars, procVars>>

(***************************************************************************)
(* Battle Plan Ledger                                                      *)
(***************************************************************************)
ActivePlans(plans) == {p \in plans : p.status = "active"}

\* No UPDATE at all.
SupersedeNone(plans, t) == plans

\* UPDATE battle_plan SET status = 'superseded', updated_at = ? WHERE status = 'active'
SupersedeActive(plans, t) ==
    {IF p.status = "active"
     THEN [p EXCEPT !.status = "superseded", !.updated_at = t]
     ELSE p : p \in plans}

\* INSERT INTO battle_plan (set_by, plan, status, created_at, updated_at)
InsertPlan(plans, id, agent_name, plan, t) ==
    plans \cup {[id |-> id, set_by |-> agent_name, plan |-> plan,
                 status |-> "active", created_at |-> t, updated_at |-> t]}

\* UPDATE battle_plan SET status = ?, updated_at = ? WHERE id = ?
SetPlanStatus(plans, plan_id, status, t) ==
    {IF p.id = plan_id
     THEN [p EXCEPT !.status = status, !.updated_at = t]
     ELSE p : p \in plans}

\* A check of the caller that asks only for a registered agent.
LeadCheckAnyClass(ag, agent_name) ==
    IF agent_name \notin DOMAIN ag THEN "blocked_not_registered" ELSE "ok"

\* The lead-only check every lead-only tool starts with.
LeadCheck(ag, agent_name) ==
    IF agent_name \notin DOMAIN ag THEN "blocked_not_registered"
    ELSE IF ag[agent_name].agent_class # "lead" THEN "blocked_not_lead"
    ELSE "ok"

set_battle_plan(agent_name, plan) ==
    /\ call' = Call("set_battle_plan", agent_name, plan, 0, FALSE)
    /\ IF LeadCheck(agents, agent_name) # "ok"
       THEN Reject(LeadCheck(agents, agent_name))
       ELSE /\ plan_seq < MaxPlans
            /\ battle_plan' = InsertPlan(SupersedeActive(battle_plan, now),
                                         plan_seq + 1, agent_name, plan, now)
            /\ plan_seq' = plan_seq + 1
            /\ ret' = "ok"
            /\ out' = <<>>
            /\ UNCHANGED <<now, agentVars, mailVars, logVars, taskVars, fileVars,
                           flagVars, procVars>>

update_battle_plan_status(agent_name, plan_id, status) ==
    /\ call' = Call("update_battle_plan_status", agent_name, status, plan_id, FALSE)
    /\ IF status \notin BATTLE_PLAN_STATUSES
       THEN Reject("invalid_status")
       ELSE IF LeadCheck(agents, agent_name) # "ok"
       THEN Reject(LeadCheck(agents, agent_name))
       ELSE IF \A p \in battle_plan : p.id # plan_id
       THEN Reject("not_found")
       ELSE /\ battle_plan' = SetPlanStatus(battle_plan, plan_id, status, now)
            /\ ret' = "ok"
            /\ out' = <<>>
            /\ UNCHANGED <<now, agentVars, mailVars, plan_seq, logVars, taskVars,
                           fileVars, flagVars, procVars>>

(***************************************************************************)
(* Raid log, debrief, end_session                                          *)
(***************************************************************************)
\* An entry's text is its fixed prefix and the rest.
LogRow(agent_name, prefix, rest, priority, t) ==
    [agent_name |-> agent_name, prefix |-> prefix, rest |-> rest,
     priority |-> priority, created_at |-> t]

\* ... WHERE priority = 'critical' AND entry LIKE 'DEBRIEF FILED:%'
DebriefCount(log) ==
    Cardinality({i \in 1..Len(log) :
        log[i].priority = "critical" /\ log[i].prefix = "DEBRIEF FILED:"})

debrief(agent_name, debrief_file, exists) ==
    /\ call' = Call("debrief", agent_name, debrief_file, 0, exists)
    /\ IF LeadCheck(agents, agent_name) # "ok"
       THEN Reject(LeadCheck(agents, agent_name))
       ELSE IF ~exists
       THEN Reject("blocked_no_file")
       ELSE /\ Len(raid_log) < MaxLog
            /\ raid_log' = Append(raid_log,
                  LogRow(agent_name, "DEBRIEF FILED:", debrief_file, "critical", now))
            /\ agents' = TouchLastSeen(agents, agent_name, now)
            /\ ret' = "ok"
            /\ out' = <<>>
            /\ UNCHANGED <<now, mailVars, planVars, taskVars, fileVars, flagVars,
                           procVars>>

OpenTasks(ts) == {t \in ts : t.status \in {"open", "assigned", "in_progress"}}

\* ... WHERE status = 'active' ORDER BY created_at DESC LIMIT 1: the rows the
\* query may return (rows created at the same instant are in no fixed order).
LatestActive(plans) ==
    {p \in ActivePlans(plans) : \A q \in ActivePlans(plans) : q.created_at <= p.created_at}

end_session(agent_name) ==
    /\ call' = Call("end_session", agent_name, NULL, 0, FALSE)
    /\ IF LeadCheck(agents, agent_name) # "ok"
       THEN Reject(LeadCheck(agents, agent_name))
       ELSE IF DebriefCount(raid_log) = 0
       THEN Reject("blocked_no_debrief")
       ELSE IF OpenTasks(tasks) # {}
       THEN Reject("blocked_open_tasks")
       ELSE /\ Len(raid_log) < MaxLog
            /\ IF LatestActive(battle_plan) = {}
               THEN battle_plan' = battle_plan
               ELSE \E p \in LatestActive(battle_plan) :
                      battle_plan' = SetPlanStatus(battle_plan, p.id, "completed", now)
            /\ raid_log' = Append(raid_log,
                  LogRow(agent_name, "SESSION ENDED", "", "critical", now))
            /\ ret' = "ok"
            /\ out' = <<>>
            /\ UNCHANGED <<now, agentVars, mailVars, plan_seq, taskVars, fileVars,
                           flagVars, procVars>>

(***************************************************************************)
(* The plan ledger under sequential calls.                                 *)
(***************************************************************************)
PlanNames == {"L", "C"}
PlanClasses == {"lead", "coder"}
PlanTargets == {"active", "completed", "archived"}

NextPlan ==
    \/ \E a \in PlanNames, c \in PlanClasses : register(a, c, "", "terminal")
    \/ \E a \in PlanNames : set_battle_plan(a, "go")
    \/ \E a \in PlanNames, i \in 1..MaxPlans, s \in PlanTargets :
          update_battle_plan_status(a, i, s)
    \/ \E a \in PlanNames, e \in BOOLEAN : debrief(a, "debrief.md", e)
    \/ \E a \in PlanNames : end_session(a)

SpecPlan == Init /\ [][NextPlan]_vars

\* C1: at any time the number of battle plans with status active is 0 or 1.
C1_AtMostOneActivePlan == Cardinality(ActivePlans(battle_plan)) <= 1

\* C31: an end_session by a lead succeeds only if a debrief was filed after
\* the most recent previous successful end_session (or since the start when
\* there was none).
C31_DebriefPerSession ==
    [][(call'.op = "end_session" /\ ret' = "ok")
          => \E i \in 1..Len(raid_log) :
                /\ raid_log[i].prefix = "DEBRIEF FILED:"
                /\ \A j \in 1..Len(raid_log) :
                      raid_log[j].prefix = "SESSION ENDED" => j < i]_vars


(***************************************************************************)
(* File Mutual-Exclusion Manager                                           *)
(***************************************************************************)
\* A path is [abs, parts]: whether it starts with "/", and its components
\* ("" between two slashes or after a trailing one).  The process's working
\* directory is /w.
Path(abs, parts) == [abs |-> abs, parts |-> parts]
Cwd == <<"w">>

\* os.path.normpath on the components of an absolute path: "" and "." are
\* dropped, ".." drops the component before it (and nothing at the root).
RECURSIVE NormParts(_, _)
NormParts(parts, acc) ==
    IF parts = <<>> THEN acc
    ELSE LET h == Head(parts) IN
         IF h \in {"", "."} THEN NormParts(Tail(parts), acc)
         ELSE IF h = ".."
         THEN NormParts(Tail(parts),
                        IF acc = <<>> THEN acc ELSE SubSeq(acc, 1, Len(acc) - 1))
         ELSE NormParts(Tail(parts), Append(acc, h))

\* os.path.abspath(file_path) = normpath(join(getcwd(), file_path))
abspath(file_path) ==
    Path(TRUE, NormParts(IF file_path.abs THEN file_path.parts
                         ELSE Cwd \o file_path.parts, <<>>))

\* The path joined to the working directory but not normalized.
JoinedOnly(file_path) ==
    Path(TRUE, IF file_path.abs THEN file_path.parts ELSE Cwd \o file_path.parts)

\* normalized = os.path.abspath(file_path)
Normalized(file_path) == abspath(file_path)

\* The sequences that list the rows of S in ascending order of added_at
\* (ORDER BY added_at ASC; rows added at the same instant in any order).
RECURSIVE OrderedByAddedAt(_)
OrderedByAddedAt(S) ==
    IF S = {} THEN {<<>>}
    ELSE UNION {{<<r>> \o rest : rest \in OrderedByAddedAt(S \ {r})} :
                r \in {x \in S : \A y \in S : x.added_at <= y.added_at}}

AgentNamesOf(rows) == [i \in 1..Len(rows) |-> rows[i].agent_name]

ClaimsOn(claims, path) == {c \in claims : c.file_path = path}

\* A file_claims table without the PRIMARY KEY.
ClaimInsertNeverFails(claims, path) == FALSE

\* INSERT INTO file_claims: file_path is the PRIMARY KEY, so a second row for
\* the path raises sqlite3.IntegrityError.
ClaimInsertFails(claims, path) == ClaimsOn(claims, path) # {}

InsertClaim(claims, path, agent_name, t) ==
    claims \cup {[file_path |-> path, agent_name |-> agent_name, claimed_at |-> t]}

\* INSERT OR IGNORE INTO file_waitlist: UNIQUE(file_path, agent_name).
OnWaitlist(wl, path, agent_name) ==
    \E w \in wl : w.file_path = path /\ w.agent_name = agent_name

\* A claim_file that blocks without queuing the caller.
InsertNoWaiter(wl, path, agent_name, t) == wl

\* A plain INSERT into a file_waitlist without the UNIQUE constraint.
InsertWaiterAgain(wl, path, agent_name, t) ==
    wl \cup {[file_path |-> path, agent_name |-> agent_name, added_at |-> t]}

InsertWaiter(wl, path, agent_name, t) ==
    IF OnWaitlist(wl, path, agent_name) THEN wl
    ELSE wl \cup {[file_path |-> path, agent_name |-> agent_name, added_at |-> t]}

\* The history once the waitlist old has become wl: for the paths that still
\* have waiters, the entries there were and an entry for each row deleted, the
\* earliest of an agent on a path; an entry no earlier than the agent's row in
\* wl says nothing and is dropped.
FirstBlocked(first, old, wl) ==
    LET kept == {h \in first : \E w \in wl : w.file_path = h.file_path}
        gone == {w \in old \ wl :
                    /\ \E v \in wl : v.file_path = w.file_path
                    /\ \A h \in kept : ~(/\ h.file_path = w.file_path
                                         /\ h.agent_name = w.agent_name)}
        all == kept \cup {[file_path |-> w.file_path, agent_name |-> w.agent_name,
                           first_at |-> w.added_at] : w \in gone}
    IN {h \in all : \A w \in wl : (/\ w.file_path = h.file_path
                                   /\ w.agent_name = h.agent_name)
                                     => h.first_at < w.added_at}

claim_file(agent_name, file_path) ==
    LET normalized == Normalized(file_path)
        existing == ClaimsOn(file_claims, normalized)
    IN
    /\ call' = Call("claim_file", agent_name, file_path, 0, FALSE)
    /\ out' = <<>>
    /\ IF agent_name \notin DOMAIN agents
       THEN /\ ret' = "blocked_not_registered"
            /\ UNCHANGED <<now, dbVars, procVars>>
       ELSE IF existing # {}
       THEN IF \E c \in existing : c.agent_name = agent_name
            THEN /\ ret' = "already_yours"
                 /\ UNCHANGED <<now, dbVars, procVars>>
            ELSE /\ file_waitlist' =
                       InsertWaiter(file_waitlist, normalized, agent_name, now)
                 /\ first_blocked' = FirstBlocked(first_blocked, file_waitlist, file_waitlist')
                 /\ ret' = "blocked_claimed"
                 /\ UNCHANGED <<now, agentVars, mailVars, planVars, logVars, taskVars,
                                file_claims, flagVars, procVars>>
       ELSE IF ClaimInsertFails(file_claims, normalized)
       THEN /\ ret' = "error"
            /\ UNCHANGED <<now, dbVars, procVars>>
       ELSE /\ file_claims' = InsertClaim(file_claims, normalized, agent_name, now)
            /\ agents' = TouchLastSeen(agents, agent_name, now)
            /\ ret' = "ok"
            /\ UNCHANGED <<now, mailVars, planVars, logVars, taskVars,
                           file_waitlist, first_blocked, flagVars, procVars>>

\* A permission check that lets a lead release without force.
ReleaseDeniedUnlessLead(ag, claim, agent_name, force) ==
    /\ \E c \in claim : c.agent_name # agent_name
    /\ ag[agent_name].agent_class # "lead"

\* if claim_holder != agent_name:
\*     if agent_row["agent_class"] != "lead" or not force: return BLOCKED
ReleaseDenied(ag, claim, agent_name, force) ==
    /\ \E c \in claim : c.agent_name # agent_name
    /\ (ag[agent_name].agent_class # "lead" \/ ~force)

\* A release that hands the claim to a waiter of the path, if there is one.
HandedToWaiter(claims, wl, path) ==
    IF \E w \in wl : w.file_path = path
    THEN (claims \ ClaimsOn(claims, path))
         \cup {[file_path |-> path,
                agent_name |-> (CHOOSE w \in wl : w.file_path = path).agent_name,
                claimed_at |-> 0]}
    ELSE claims \ ClaimsOn(claims, path)

\* DELETE FROM file_claims WHERE file_path = ?
ReleasedClaims(claims, wl, path) == claims \ ClaimsOn(claims, path)

release_file(agent_name, file_path, force) ==
    LET normalized == Normalized(file_path)
        claim == ClaimsOn(file_claims, normalized)
    IN
    /\ call' = Call("release_file", agent_name, file_path, 0, force)
    /\ IF agent_name \notin DOMAIN agents
       THEN Reject("blocked_not_registered")
       ELSE IF claim = {}
       THEN Reject("not_claimed")
       ELSE IF ReleaseDenied(agents, claim, agent_name, force)
       THEN Reject("blocked_not_holder")
       ELSE /\ file_claims' = ReleasedClaims(file_claims, file_waitlist, normalized)
            /\ \E waiters \in OrderedByAddedAt(
                                {w \in file_waitlist : w.file_path = normalized}) :
                  out' = AgentNamesOf(waiters)
            /\ file_waitlist' = {w \in file_waitlist : w.file_path # normalized}
            /\ first_blocked' = FirstBlocked(first_blocked, file_waitlist, file_waitlist')
            /\ agents' = TouchLastSeen(agents, agent_name, now)
            /\ ret' = "ok"
            /\ UNCHANGED <<now, mailVars, planVars, logVars, taskVars,
                           flagVars, procVars>>

\* for fp in claimed_files: DELETE FROM file_claims WHERE file_path = ?
ReleasedOf(claims, agent_name) ==
    LET claimed_files == {c.file_path : c \in {d \in claims : d.agent_name = agent_name}}
    IN {c \in claims : c.file_path \notin claimed_files}

\* A deregister that leaves the waitlists as they are.
WaitlistKept(wl, agent_name) == wl

\* DELETE FROM file_waitlist WHERE agent_name = ?
WaitlistWithout(wl, agent_name) == {w \in wl : w.agent_name # agent_name}

deregister(agent_name) ==
    /\ call' = Call("deregister", agent_name, NULL, 0, FALSE)
    /\ IF agent_name \notin DOMAIN agents
       THEN Reject("not_found")
       ELSE /\ file_claims' = ReleasedOf(file_claims, agent_name)
            /\ file_waitlist' = WaitlistWithout(file_waitlist, agent_name)
            /\ first_blocked' = FirstBlocked(first_blocked, file_waitlist, file_waitlist')
            /\ agents' = Remove(agents, agent_name)
            /\ ret' = "ok"
            /\ out' = <<>>
            /\ UNCHANGED <<now, mailVars, planVars, logVars, taskVars,
                           flagVars, procVars>>

\* UPDATE agents SET name = ? WHERE name = ?
RenameAgent(ag, old_name, new_name) ==
    [n \in (DOMAIN ag \ {old_name}) \cup {new_name} |->
        IF n = new_name THEN ag[old_name] ELSE ag[n]]

Renamed(x, old_name, new_name) == IF x = old_name THEN new_name ELSE x

\* UPDATE broadcast_reads SET agent_name = ?: (agent_name, message_id) is the
\* PRIMARY KEY, so the update raises sqlite3.IntegrityError when the new name
\* has already acknowledged a broadcast that the old name acknowledged too.
RenameReadsFails(reads, old_name, new_name) ==
    \E r \in reads : r[1] = old_name /\ <<new_name, r[2]>> \in reads

rename(old_name, new_name) ==
    /\ call' = Call("rename", old_name, new_name, 0, FALSE)
    /\ IF old_name \notin DOMAIN agents
       THEN Reject("not_found")
       ELSE IF new_name \in DOMAIN agents
       THEN Reject("already_exists")
       ELSE IF RenameReadsFails(broadcast_reads, old_name, new_name)
       THEN Reject("error")
       ELSE /\ agents' = RenameAgent(agents, old_name, new_name)
            /\ messages' =
                  {[m EXCEPT !.from_agent = Renamed(@, old_name, new_name),
                             !.to_agent = Renamed(@, old_name, new_name),
                             !.cc_original_to = Renamed(@, old_name, new_name)] :
                   m \in messages}
            /\ broadcast_reads' =
                  {<<Renamed(r[1], old_name, new_name), r[2]>> : r \in broadcast_reads}
            /\ ret' = "ok"
            /\ out' = <<>>
            /\ UNCHANGED <<now, msg_seq, planVars, logVars, taskVars, fileVars,
                           flagVars, procVars>>

(***************************************************************************)
(* File claims under sequential calls.                                     *)
(***************************************************************************)
FileNames == {"A", "B"}
FileClasses == {"lead", "coder"}

\* "/x", "../x" (which is /x from /w) and "/y/"
RawPaths ==
    {Path(TRUE, <<"x">>), Path(FALSE, <<"..", "x">>), Path(TRUE, <<"y", "">>)}

NextFiles ==
    \/ \E a \in FileNames, c \in FileClasses : register(a, c, "", "terminal")
    \/ \E a \in FileNames, p \in RawPaths : claim_file(a, p)
    \/ \E a \in FileNames, p \in RawPaths, f \in BOOLEAN : release_file(a, p, f)
    \/ \E a \in FileNames : deregister(a)
    \/ \E a \in FileNames, b \in FileNames : rename(a, b)

SpecFiles == Init /\ [][NextFiles]_vars

\* C38: the holder of every file claim and every agent on a waitlist is a
\* registered agent name.
C38_HoldersRegistered ==
    /\ \A c \in file_claims : c.agent_name \in DOMAIN agents
    /\ \A w \in file_waitlist : w.agent_name \in DOMAIN agents

\* C39: a path that has waiters is claimed, and by none of its waiters.
C39_WaitersOnlyWhileClaimed ==
    \A w \in file_waitlist :
        /\ ClaimsOn(file_claims, w.file_path) # {}
        /\ \A c \in ClaimsOn(file_claims, w.file_path) : c.agent_name # w.agent_name

\* C2: each normalized file path has at most one file claim, hence at most
\* one holder.
C2_OneClaimPerPath ==
    \A p \in RawPaths :
        Cardinality({c \in file_claims : abspath(c.file_path) = abspath(p)}) <= 1

\* Two agents asked for the same file under different spellings of its path,
\* and the first one holds it.
C2_Witness ==
    /\ call.op = "claim_file"
    /\ ret = "blocked_claimed"
    /\ \E c \in file_claims :
          /\ c.file_path = abspath(call.arg)
          /\ c.file_path # JoinedOnly(call.arg)
          /\ c.agent_name # call.agent


(***************************************************************************)
(* Task Workflow                                                           *)
(***************************************************************************)
MaxActivity == 1  \* update_task calls counted on one task

TaskById(ts, task_id) == {t \in ts : t.id = task_id}

\* int(raw_id) for the ids the model passes in blocked_by; <<>> is ValueError.
ParseInt(raw) ==
    CASE raw = "1"  -> <<1>>
      [] raw = "2"  -> <<2>>
      [] raw = "99" -> <<99>>
      [] OTHER      -> <<>>

\* The same loop without the SELECT id FROM tasks of each id.
RECURSIVE ParseBlockersUnchecked(_, _, _)
ParseBlockersUnchecked(raws, ts, acc) ==
    IF raws = <<>> THEN [err |-> "ok", ids |-> acc]
    ELSE LET raw == Head(raws) IN
         IF raw = "" THEN ParseBlockersUnchecked(Tail(raws), ts, acc)
         ELSE IF ParseInt(raw) = <<>> THEN [err |-> "blocked_bad_id", ids |-> acc]
         ELSE ParseBlockersUnchecked(Tail(raws), ts, Append(acc, ParseInt(raw)[1]))

\* The loop over blocked_by.split(","), after strip(): the first failure, or
\* "ok" and the ids collected so far.
RECURSIVE ParseBlockers(_, _, _)
ParseBlockers(raws, ts, acc) ==
    IF raws = <<>> THEN [err |-> "ok", ids |-> acc]
    ELSE LET raw == Head(raws) IN
         IF raw = "" THEN ParseBlockers(Tail(raws), ts, acc)
         ELSE IF ParseInt(raw) = <<>> THEN [err |-> "blocked_bad_id", ids |-> acc]
         ELSE IF TaskById(ts, ParseInt(raw)[1]) = {}
         THEN [err |-> "blocked_no_blocker", ids |-> acc]
         ELSE ParseBlockers(Tail(raws), ts, Append(acc, ParseInt(raw)[1]))

create_task(agent_name, title, exists, blocked_by) ==
    LET parsed == ParseBlockers(blocked_by, tasks, <<>>) IN
    /\ call' = Call("create_task", agent_name, NULL, 0, exists)
                  @@ [blocked_by |-> blocked_by]
    /\ IF LeadCheck(agents, agent_name) # "ok"
       THEN Reject(LeadCheck(agents, agent_name))
       ELSE IF ActivePlans(battle_plan) = {}
       THEN Reject("blocked_no_plan")
       ELSE IF ~exists
       THEN Reject("blocked_no_file")
       ELSE IF parsed.err # "ok"
       THEN Reject(parsed.err)
       ELSE /\ task_seq < MaxTasks
            /\ tasks' = tasks \cup
                  {[id |-> task_seq + 1, title |-> title, status |-> "open",
                    blocked_by |-> parsed.ids, assigned_to |-> NULL,
                    created_by |-> agent_name, files |-> NULL, progress |-> NULL,
                    activity_count |-> 0, result_file |-> NULL,
                    created_at |-> now, updated_at |-> now]}
            /\ task_seq' = task_seq + 1
            /\ ret' = "ok"
            /\ out' = <<>>
            /\ UNCHANGED <<now, agentVars, mailVars, planVars, logVars, fileVars,
                           flagVars, procVars>>

\* A flag check that never finds the flag set.
MoonCrashNever(fl) == FALSE

\* SELECT value ... FROM flags WHERE key = 'moon_crash', and value == "1"
MoonCrashActive(fl) == \E f \in fl : f.key = "moon_crash" /\ f.value = "1"

\* A check of the status that never finds the task closed.
NeverClosed(t) == FALSE

\* if task_row["status"] == "closed"
IsClosed(t) == t.status = "closed"

\* UPDATE tasks SET ... WHERE id = ?
ReplaceTask(ts, old, new) == (ts \ {old}) \cup {new}

assign_task(agent_name, task_id, assigned_to) ==
    /\ call' = Call("assign_task", agent_name, assigned_to, task_id, FALSE)
    /\ IF MoonCrashActive(flags)
       THEN Reject("blocked_moon_crash")
       ELSE IF LeadCheck(agents, agent_name) # "ok"
       THEN Reject(LeadCheck(agents, agent_name))
       ELSE IF assigned_to \notin DOMAIN agents
       THEN Reject("blocked_no_assignee")
       ELSE IF TaskById(tasks, task_id) = {}
       THEN Reject("not_found")
       ELSE \E t \in TaskById(tasks, task_id) :
              IF IsClosed(t)
              THEN Reject("blocked_closed")
              ELSE /\ tasks' = ReplaceTask(tasks, t,
                        [t EXCEPT !.assigned_to = assigned_to, !.status = "assigned",
                                  !.updated_at = now])
                   /\ ret' = "ok"
                   /\ out' = <<>>
                   /\ UNCHANGED <<now, agentVars, mailVars, planVars, logVars, task_seq,
                                  fileVars, flagVars, procVars>>

\* An UPDATE that sets the fields given and leaves activity_count alone.
UpdatedTaskUncounted(t, status, progress, files, now_) ==
    [t EXCEPT !.updated_at = now_,
              !.status = IF status # "" THEN status ELSE @,
              !.progress = IF progress # "" THEN progress ELSE @,
              !.files = IF files # "" THEN files ELSE @]

\* The dynamic UPDATE: activity_count + 1 and updated_at always, status,
\* progress and files when given.
UpdatedTask(t, status, progress, files, now_) ==
    [t EXCEPT !.activity_count = @ + 1,
              !.updated_at = now_,
              !.status = IF status # "" THEN status ELSE @,
              !.progress = IF progress # "" THEN progress ELSE @,
              !.files = IF files # "" THEN files ELSE @]

\* update_task with no test of the status "closed".
ClosedAllowed(status) == FALSE

\* if status == "closed"
ClosedBarred(status) == status = "closed"

update_task(agent_name, task_id, status, progress, files) ==
    /\ call' = Call("update_task", agent_name, status, task_id, FALSE)
    /\ IF status # "" /\ status \notin TASK_STATUSES
       THEN Reject("invalid_status")
       ELSE IF ClosedBarred(status)
       THEN Reject("blocked_use_close_task")
       ELSE IF agent_name \notin DOMAIN agents
       THEN Reject("blocked_not_registered")
       ELSE IF TaskById(tasks, task_id) = {}
       THEN Reject("not_found")
       ELSE \E t \in TaskById(tasks, task_id) :
              IF IsClosed(t)
              THEN Reject("blocked_closed")
              ELSE /\ t.activity_count < MaxActivity
                   /\ tasks' = ReplaceTask(tasks, t,
                                           UpdatedTask(t, status, progress, files, now))
                   /\ agents' = TouchLastSeen(agents, agent_name, now)
                   /\ ret' = "ok"
                   /\ out' = <<>>
                   /\ UNCHANGED <<now, mailVars, planVars, logVars, task_seq,
                                  fileVars, flagVars, procVars>>

submit_result(agent_name, task_id, result_file, exists) ==
    /\ call' = Call("submit_result", agent_name, NULL, task_id, FALSE)
    /\ IF agent_name \notin DOMAIN agents
       THEN Reject("blocked_not_registered")
       ELSE IF TaskById(tasks, task_id) = {}
       THEN Reject("not_found")
       ELSE IF ~exists
       THEN Reject("blocked_no_file")
       ELSE \E t \in TaskById(tasks, task_id) :
              /\ tasks' = ReplaceTask(tasks, t,
                    [t EXCEPT !.result_file = result_file, !.updated_at = now])
              /\ agents' = TouchLastSeen(agents, agent_name, now)
              /\ ret' = "ok"
              /\ out' = <<>>
              /\ UNCHANGED <<now, mailVars, planVars, logVars, task_seq,
                             fileVars, flagVars, procVars>>

\* A check of the result file that never finds it missing.
NeverNoResult(t) == FALSE

\* if not task_row["result_file"]
HasNoResult(t) == t.result_file \in {NULL, ""}

close_task(agent_name, task_id) ==
    /\ call' = Call("close_task", agent_name, NULL, task_id, FALSE)
    /\ IF LeadCheck(agents, agent_name) # "ok"
       THEN Reject(LeadCheck(agents, agent_name))
       ELSE IF TaskById(tasks, task_id) = {}
       THEN Reject("not_found")
       ELSE \E t \in TaskById(tasks, task_id) :
              IF IsClosed(t)
              THEN Reject("already_closed")
              ELSE IF HasNoResult(t)
              THEN Reject("blocked_no_result")
              ELSE /\ tasks' = ReplaceTask(tasks, t,
                        [t EXCEPT !.status = "closed", !.updated_at = now])
                   /\ ret' = "ok"
                   /\ out' = <<>>
                   /\ UNCHANGED <<now, agentVars, mailVars, planVars, logVars, task_seq,
                                  fileVars, flagVars, procVars>>

(***************************************************************************)
(* The task workflow under sequential calls: a lead L and a coder C.       *)
(***************************************************************************)
TaskNames == {"L", "C"}
TaskClassOf(a) == IF a = "L" THEN "lead" ELSE "coder"
TaskStatusArgs == {"in_progress", "closed"}
ResultFiles == {"r.md", "s.md"}

NextTasks ==
    \/ \E a \in TaskNames : register(a, TaskClassOf(a), "", "terminal")
    \/ \E a \in TaskNames : plan_seq = 0 /\ set_battle_plan(a, "go")
    \/ \E a \in TaskNames, e \in BOOLEAN, b \in {<<>>, <<"1">>, <<"99">>} :
          create_task(a, "t", e, b)
    \/ \E a \in TaskNames, i \in 1..MaxTasks : assign_task(a, i, "C")
    \/ \E a \in TaskNames, i \in 1..MaxTasks, s \in TaskStatusArgs :
          update_task(a, i, s, "wip", "")
    \/ \E a \in TaskNames, i \in 1..MaxTasks, f \in ResultFiles, e \in BOOLEAN :
          submit_result(a, i, f, e)
    \/ \E a \in TaskNames, i \in 1..MaxTasks : close_task(a, i)

SpecTasks == Init /\ [][NextTasks]_vars

\* C20: create_task inserts a task row only when the caller is a registered
\* lead, an active battle plan exists, the spec file exists and every id listed
\* in blocked_by is the id of an existing task; a call that fails one of these
\* is rejected and leaves the set of tasks unchanged.
C20_CreateTaskValidated ==
    [][call'.op = "create_task" =>
          LET raws == call'.blocked_by
              valid ==
                  /\ call'.agent \in DOMAIN agents
                  /\ agents[call'.agent].agent_class = "lead"
                  /\ \E p \in battle_plan : p.status = "active"
                  /\ call'.flag
                  /\ \A i \in 1..Len(raws) :
                        \/ raws[i] = ""
                        \/ /\ ParseInt(raws[i]) # <<>>
                           /\ \E t \in tasks : t.id = ParseInt(raws[i])[1]
          IN /\ tasks' # tasks => valid /\ ret' = "ok"
             /\ ~valid => /\ tasks' = tasks
                          /\ task_seq' = task_seq
                          /\ ret' # "ok"]_vars

\* A lead with an active plan and an existing spec file names a task that does
\* not exist in blocked_by: the call is refused and no row was inserted.
C20_Witness ==
    /\ call.op = "create_task"
    /\ call.flag
    /\ call.blocked_by = <<"99">>
    /\ ret = "blocked_no_blocker"
    /\ call.agent \in DOMAIN agents
    /\ agents[call.agent].agent_class = "lead"
    /\ ActivePlans(battle_plan) # {}
    /\ \A t \in tasks : t.id # 99

\* C23: in every reachable state every closed task has a non-empty
\* result_file, and a close_task call on a task for which no result has been
\* submitted is rejected and leaves the task unchanged.
C23_ClosedHasResult ==
    /\ [](\A t \in tasks : t.status = "closed" => t.result_file \notin {NULL, ""})
    /\ [][\A t \in tasks :
             (/\ call'.op = "close_task"
              /\ call'.id = t.id
              /\ t.result_file \in {NULL, ""})
             => ret' # "ok" /\ tasks' = tasks]_vars

\* A lead asked to close an open task that has no result and was refused.
C23_Witness ==
    /\ call.op = "close_task"
    /\ ret = "blocked_no_result"
    /\ call.agent \in DOMAIN agents
    /\ agents[call.agent].agent_class = "lead"
    /\ \E t \in tasks : t.id = call.id /\ t.status # "closed" /\ t.result_file = NULL

\* C24: a task's status becomes closed only in a successful close_task call
\* by a lead; update_task with status closed is always rejected and changes
\* nothing.
C24_ClosedOnlyByCloseTask ==
    [][/\ (\E t \in tasks' :
              /\ t.status = "closed"
              /\ ~\E u \in tasks : u.id = t.id /\ u.status = "closed")
          => /\ call'.op = "close_task"
             /\ ret' = "ok"
             /\ call'.agent \in DOMAIN agents
             /\ agents[call'.agent].agent_class = "lead"
       /\ (call'.op = "update_task" /\ call'.arg = "closed")
          => /\ ret' = "blocked_use_close_task"
             /\ tasks' = tasks
             /\ agents' = agents]_vars

\* A registered agent asked update_task to close an existing open task and was
\* refused.
C24_Witness ==
    /\ call.op = "update_task"
    /\ call.arg = "closed"
    /\ ret = "blocked_use_close_task"
    /\ call.agent \in DOMAIN agents
    /\ \E t \in tasks : t.id = call.id /\ t.status # "closed"

ClosedRejections ==
    {"blocked_closed", "already_closed", "blocked_not_registered", "blocked_not_lead",
     "blocked_use_close_task", "blocked_no_assignee", "invalid_status",
     "blocked_moon_crash"}

\* C3: once a task is closed, every later update_task, assign_task and
\* close_task call on it is rejected and leaves the task's row unchanged; a
\* second close_task is a failure result, not a re-close.
C3_ClosedTaskNotMutated ==
    [][\A t \in tasks :
          (/\ t.status = "closed"
           /\ call'.op \in {"update_task", "assign_task", "close_task"}
           /\ call'.id = t.id)
          => /\ t \in tasks'
             /\ ret' \in ClosedRejections
             /\ (call'.op = "close_task" /\ LeadCheck(agents, call'.agent) = "ok"
                    => ret' = "already_closed")]_vars

\* A registered caller (a lead, for assign_task and close_task) was turned
\* away from a closed task.
C3_Witness ==
    /\ call.op \in {"update_task", "assign_task", "close_task"}
    /\ ret \in {"blocked_closed", "already_closed"}
    /\ \E t \in TaskById(tasks, call.id) : t.status = "closed"

\* C4: closed is terminal for every operation: once a task is closed, no
\* later operation of any kind changes any field of its row.
C4_ClosedTaskFrozen ==
    [][\A t \in tasks : t.status = "closed" => t \in tasks']_vars


(***************************************************************************)
(* Trigger words                                                           *)
(***************************************************************************)
\* A message text is a sequence of characters.
UpperCase == <<"A", "B", "C", "D", "E", "F", "G", "H", "I", "J", "K", "L", "M",
               "N", "O", "P", "Q", "R", "S", "T", "U", "V", "W", "X", "Y", "Z">>
LowerCase == <<"a", "b", "c", "d", "e", "f", "g", "h", "i", "j", "k", "l", "m",
               "n", "o", "p", "q", "r", "s", "t", "u", "v", "w", "x", "y", "z">>

\* str.lower()
LowerChar(ch) ==
    IF \E i \in 1..Len(UpperCase) : UpperCase[i] = ch
    THEN LowerCase[CHOOSE i \in 1..Len(UpperCase) : UpperCase[i] = ch]
    ELSE ch

Lower(text) == [i \in 1..Len(text) |-> LowerChar(text[i])]

\* word in lower: the word occurs somewhere in the text.
Contains(text, word) ==
    \E i \in 0..(Len(text) - Len(word)) :
        \A j \in 1..Len(word) : text[i + j] = word[j]

TRIGGER_WORDS ==
    <<[word |-> "fenix_down", chars |-> <<"f", "e", "n", "i", "x", "_", "d", "o", "w", "n">>],
      [word |-> "moon_crash", chars |-> <<"m", "o", "o", "n", "_", "c", "r", "a", "s", "h">>],
      [word |-> "sitrep",     chars |-> <<"s", "i", "t", "r", "e", "p">>],
      [word |-> "rally",      chars |-> <<"r", "a", "l", "l", "y">>],
      [word |-> "retreat",    chars |-> <<"r", "e", "t", "r", "e", "a", "t">>],
      [word |-> "hot_zone",   chars |-> <<"h", "o", "t", "_", "z", "o", "n", "e">>],
      [word |-> "stand_down", chars |-> <<"s", "t", "a", "n", "d", "_", "d", "o", "w", "n">>],
      [word |-> "recon",      chars |-> <<"r", "e", "c", "o", "n">>]>>

\* The trigger words found in the message, in the codebook's order.
_scan_triggers(message) ==
    SelectSeq([i \in 1..Len(TRIGGER_WORDS) |-> TRIGGER_WORDS[i].word],
              LAMBDA w : \E i \in 1..Len(TRIGGER_WORDS) :
                            /\ TRIGGER_WORDS[i].word = w
                            /\ Contains(Lower(message), TRIGGER_WORDS[i].chars))

InSeq(x, sq) == \E i \in 1..Len(sq) : sq[i] = x

\* "hi" and "MOON_crash!": the message texts the model sends.
TextHi == <<"h", "i">>
TextCrash == <<"M", "O", "O", "N", "_", "c", "r", "a", "s", "h", "!">>
Texts == {TextHi, TextCrash}

\* _scan_triggers on the texts of the model, computed once.
ScanTable == [m \in Texts |-> _scan_triggers(m)]

TriggersFound(message) ==
    IF message \in Texts THEN ScanTable[message] ELSE _scan_triggers(message)

(***************************************************************************)
(* Gate Policy Engine and Mailbox                                          *)
(***************************************************************************)
\* Unread direct messages plus broadcasts by others not yet acknowledged.
UnreadCount(msgs, reads, agent_name) ==
    Cardinality({m \in msgs : m.to_agent = agent_name /\ ~m.read_flag})
    + Cardinality({m \in msgs : /\ m.to_agent = "all"
                                /\ m.from_agent # agent_name
                                /\ <<agent_name, m.id>> \notin reads})

\* if cursor.fetchone()[0] == 0 (no plan with status 'active')
NoActivePlan(plans) == ActivePlans(plans) = {}

\* A staleness check that lets an agent through when its context was never set.
StalenessUnsetPasses(ag, agent_name, t) ==
    IF agent_name \notin DOMAIN ag THEN ""
    ELSE IF CLASS_STALENESS_SECONDS(ag[agent_name].agent_class) = <<>> THEN ""
    ELSE IF ag[agent_name].context_updated_at = NoTime THEN ""
    ELSE IF t - ag[agent_name].context_updated_at[1]
              > CLASS_STALENESS_SECONDS(ag[agent_name].agent_class)[1]
    THEN "blocked_stale"
    ELSE ""

\* A staleness check that refuses a name that has no row in agents.
StalenessUnknownRefused(ag, agent_name, t) ==
    IF agent_name \notin DOMAIN ag THEN "blocked_context_unset"
    ELSE IF CLASS_STALENESS_SECONDS(ag[agent_name].agent_class) = <<>> THEN ""
    ELSE IF ag[agent_name].context_updated_at = NoTime THEN "blocked_context_unset"
    ELSE IF t - ag[agent_name].context_updated_at[1]
              > CLASS_STALENESS_SECONDS(ag[agent_name].agent_class)[1]
    THEN "blocked_stale"
    ELSE ""

\* "" when the agent is not stale, else the kind of BLOCKED message.
_staleness_check(ag, agent_name, t) ==
    IF agent_name \notin DOMAIN ag THEN ""
    ELSE IF CLASS_STALENESS_SECONDS(ag[agent_name].agent_class) = <<>> THEN ""
    ELSE IF ag[agent_name].context_updated_at = NoTime THEN "blocked_context_unset"
    ELSE IF t - ag[agent_name].context_updated_at[1]
              > CLASS_STALENESS_SECONDS(ag[agent_name].agent_class)[1]
    THEN "blocked_stale"
    ELSE ""

\* The gates in another order: staleness first.
SendGateStaleFirst(ag, msgs, reads, plans, from_agent, t) ==
    IF _staleness_check(ag, from_agent, t) # "" THEN _staleness_check(ag, from_agent, t)
    ELSE IF UnreadCount(msgs, reads, from_agent) > 0 THEN "blocked_unread"
    ELSE IF NoActivePlan(plans) THEN "blocked_no_plan"
    ELSE "ok"

\* The three gates of send, in the order of the code.
SendGate(ag, msgs, reads, plans, from_agent, t) ==
    IF UnreadCount(msgs, reads, from_agent) > 0 THEN "blocked_unread"
    ELSE IF NoActivePlan(plans) THEN "blocked_no_plan"
    ELSE IF _staleness_check(ag, from_agent, t) # "" THEN _staleness_check(ag, from_agent, t)
    ELSE "ok"

\* INSERT OR IGNORE INTO agents (name, agent_class, registered_at, last_seen)
AutoRegister(ag, from_agent, t) ==
    IF from_agent \in DOMAIN ag THEN ag
    ELSE Upsert(ag, from_agent,
                [agent_class |-> "coder", model |-> NULL, last_seen |-> At(t),
                 context_updated_at |-> NoTime, transport |-> "terminal",
                 status |-> "waiting for work", rowid |-> NextRowid(ag)])

\* SELECT name FROM agents WHERE agent_class = 'lead' LIMIT 1
_get_lead(ag) ==
    LET leads == {n \in DOMAIN ag : ag[n].agent_class = "lead"} IN
    IF leads = {} THEN NULL
    ELSE CHOOSE n \in leads : \A k \in leads : ag[n].rowid <= ag[k].rowid

\* The explicit list alone, without the automatic CC of the lead.
CcAgentsExplicit(ag, from_agent, to_agent, cc) == SelectSeq(cc, LAMBDA a : a # "")

\* [a.strip() for a in cc.split(",") if a.strip()], then the lead appended.
CcAgents(ag, from_agent, to_agent, cc) ==
    LET explicit == SelectSeq(cc, LAMBDA a : a # "")
        lead_name == _get_lead(ag)
    IN IF /\ lead_name # NULL
          /\ from_agent # lead_name
          /\ to_agent # lead_name
          /\ ~InSeq(lead_name, explicit)
       THEN Append(explicit, lead_name)
       ELSE explicit

\* The names that get a CC row: every entry of the list but the primary recipient.
CcTargets(cc_agents, to_agent) == SelectSeq(cc_agents, LAMBDA a : a # to_agent)

MessageRow(id, from_agent, to_agent, content, t, is_cc, cc_original_to) ==
    [id |-> id, from_agent |-> from_agent, to_agent |-> to_agent,
     content |-> content, timestamp |-> t, read_flag |-> FALSE,
     is_cc |-> is_cc, cc_original_to |-> cc_original_to]

\* The rows one send inserts: the primary message, then one row per CC target.
SentRows(seq, from_agent, to_agent, message, targets, t) ==
    {MessageRow(seq + 1, from_agent, to_agent, message, t, FALSE, NULL)}
    \cup {MessageRow(seq + 1 + i, from_agent, targets[i], message, t, TRUE, to_agent) :
          i \in 1..Len(targets)}

\* INSERT INTO flags ... ON CONFLICT(key) DO UPDATE
SetFlag(fl, key, value, agent_name, t) ==
    {f \in fl : f.key # key}
    \cup {[key |-> key, value |-> value, set_by |-> agent_name, set_at |-> t]}

\* The flags written although a gate refused the send.
SendFlagsUngated(fl, gate, message, from_agent, t) ==
    IF InSeq("moon_crash", TriggersFound(message))
    THEN SetFlag(fl, "moon_crash", "1", from_agent, t)
    ELSE fl

\* moon_crash: the flag is written after the gates and the inserts.
SendFlags(fl, gate, message, from_agent, t) ==
    IF gate = "ok" /\ InSeq("moon_crash", TriggersFound(message))
    THEN SetFlag(fl, "moon_crash", "1", from_agent, t)
    ELSE fl

send(from_agent, to_agent, message, cc) ==
    LET gate == SendGate(agents, messages, broadcast_reads, battle_plan, from_agent, now)
        known == AutoRegister(agents, from_agent, now)
        targets == CcTargets(CcAgents(known, from_agent, to_agent, cc), to_agent)
    IN
    /\ call' = Call("send", from_agent, to_agent, 0,
                    InSeq("moon_crash", TriggersFound(message))) @@ [cc |-> cc]
    /\ ret' = gate
    /\ IF gate # "ok"
       THEN /\ out' = <<>>
            /\ UNCHANGED <<agentVars, mailVars>>
       ELSE /\ msg_seq < MaxMsgs
            /\ messages' = messages \cup
                  SentRows(msg_seq, from_agent, to_agent, message, targets, now)
            /\ msg_seq' = msg_seq + 1 + Len(targets)
            /\ agents' = TouchLastSeen(known, from_agent, now)
            /\ out' = TriggersFound(message)
            /\ UNCHANGED broadcast_reads
    /\ flags' = SendFlags(flags, gate, message, from_agent, now)
    /\ UNCHANGED <<now, planVars, logVars, taskVars, fileVars, procVars>>

\* direct_msgs + broadcast_msgs, sorted by timestamp (a stable sort): the ids.
InboxOrder(direct, broadcast) ==
    LET both == direct \cup broadcast
        Before(a, b) ==
            \/ a.timestamp < b.timestamp
            \/ a.timestamp = b.timestamp /\ (a \in direct) /\ (b \notin direct)
            \/ a.timestamp = b.timestamp /\ ((a \in direct) <=> (b \in direct))
                                         /\ a.id < b.id
    IN [i \in 1..Cardinality(both) |->
          (CHOOSE m \in both : Cardinality({x \in both : Before(x, m)}) = i - 1).id]

\* A query that returns every message addressed to the agent, read or not.
AllDirectRows(msgs, agent_name) == {m \in msgs : m.to_agent = agent_name}

\* SELECT * FROM messages WHERE to_agent = ? AND read_flag = 0
UnreadDirectRows(msgs, agent_name) ==
    {m \in msgs : m.to_agent = agent_name /\ ~m.read_flag}

\* A query that returns every broadcast, acknowledged or not.
AllBroadcastRows(msgs, reads, agent_name) == {m \in msgs : m.to_agent = "all"}

\* A check_inbox that fetches no broadcast.
NoBroadcastRows(msgs, reads, agent_name) == {}

\* SELECT * FROM messages WHERE to_agent = 'all' AND id NOT IN (SELECT ...)
UnreadBroadcastRows(msgs, reads, agent_name) ==
    {m \in msgs : m.to_agent = "all" /\ <<agent_name, m.id>> \notin reads}

check_inbox(agent_name) ==
    LET direct_msgs == UnreadDirectRows(messages, agent_name)
        broadcast_msgs == UnreadBroadcastRows(messages, broadcast_reads, agent_name)
    IN
    /\ call' = Call("check_inbox", agent_name, NULL, 0, FALSE)
    /\ agents' = TouchLastSeen(agents, agent_name, now)
    /\ messages' = {IF m \in direct_msgs THEN [m EXCEPT !.read_flag = TRUE] ELSE m :
                    m \in messages}
    /\ broadcast_reads' = broadcast_reads \cup {<<agent_name, m.id>> : m \in broadcast_msgs}
    /\ out' = InboxOrder(direct_msgs, broadcast_msgs)
    /\ ret' = "ok"
    /\ UNCHANGED <<now, msg_seq, planVars, logVars, taskVars, fileVars, flagVars,
                   procVars>>

\* UPDATE agents SET status = ?, last_seen = ? WHERE name = ?
set_status(agent_name, status) ==
    /\ call' = Call("set_status", agent_name, status, 0, FALSE)
    /\ agents' = IF agent_name \in DOMAIN agents
                 THEN [agents EXCEPT ![agent_name].status = status,
                                     ![agent_name].last_seen = At(now)]
                 ELSE agents
    /\ ret' = "ok"
    /\ out' = <<>>
    /\ UNCHANGED <<now, mailVars, planVars, logVars, taskVars, fileVars, flagVars,
                   procVars>>

set_context(agent_name) ==
    /\ call' = Call("set_context", agent_name, NULL, 0, FALSE)
    /\ agents' = IF agent_name \in DOMAIN agents
                 THEN [agents EXCEPT ![agent_name].context_updated_at = At(now),
                                     ![agent_name].last_seen = At(now)]
                 ELSE agents
    /\ ret' = "ok"
    /\ out' = <<>>
    /\ UNCHANGED <<now, mailVars, planVars, logVars, taskVars, fileVars, flagVars,
                   procVars>>


(***************************************************************************)
(* The send gates under sequential calls: L registers as lead, C as coder, *)
(* and either may send before it registers.  C broadcasts and L writes to  *)
(* C, so each of them finds unread mail of the other.                      *)
(***************************************************************************)
GateNames == {"L", "C"}
GateClassOf(a) == IF a = "L" THEN "lead" ELSE "coder"

NextGates ==
    \/ Tick
    \/ \E a \in GateNames : register(a, GateClassOf(a), "", "terminal")
    \/ \E a \in GateNames : set_context(a)
    \/ \E a \in GateNames : plan_seq = 0 /\ set_battle_plan(a, "go")
    \/ \E m \in Texts : send("C", "all", m, <<>>)
    \/ \E m \in Texts : send("L", "C", m, <<>>)
    \/ \E a \in GateNames : check_inbox(a)

SpecGates == Init /\ [][NextGates]_vars

SendRefusals == {"blocked_unread", "blocked_no_plan", "blocked_context_unset",
                 "blocked_stale"}

\* C5: a send refused by any gate has no side effects: no message or CC row,
\* no auto-created agent, the sender's last_seen unchanged, and the
\* moon_crash flag not set even when the text contains moon_crash.
C5_RefusedSendNoEffect ==
    [][(call'.op = "send" /\ ret' \in SendRefusals)
          => /\ messages' = messages
             /\ msg_seq' = msg_seq
             /\ broadcast_reads' = broadcast_reads
             /\ agents' = agents
             /\ flags' = flags]_vars

\* A sender that is not registered was refused a message that contains
\* moon_crash.
C5_Witness ==
    /\ call.op = "send"
    /\ ret \in SendRefusals
    /\ call.flag
    /\ call.agent \notin DOMAIN agents
    /\ flags = {}

\* C6: the gates are evaluated in the order unread-inbox, active-plan,
\* staleness, and the refusal returned is that of the first gate that fails.
C6_GateOrder ==
    [][(call'.op = "send" /\ now' = now)
          => LET a == call'.agent
                 unread == UnreadCount(messages, broadcast_reads, a) > 0
                 noplan == \A p \in battle_plan : p.status # "active"
                 stale == _staleness_check(agents, a, now)
             IN /\ unread => ret' = "blocked_unread"
                /\ (~unread /\ noplan) => ret' = "blocked_no_plan"
                /\ (~unread /\ ~noplan /\ stale # "") => ret' = stale
                /\ (~unread /\ ~noplan /\ stale = "") => ret' = "ok"]_vars

\* A sender with unread messages and stale context got the unread-inbox block.
C6_Witness ==
    /\ call.op = "send"
    /\ ret = "blocked_unread"
    /\ _staleness_check(agents, call.agent, now) = "blocked_stale"
    /\ \E p \in battle_plan : p.status = "active"

\* C8: for a registered sender, send succeeds only if context_updated_at is
\* set and its age does not exceed the sender's class threshold.
C8_AcceptedSendIsFresh ==
    [][(call'.op = "send" /\ now' = now /\ ret' = "ok" /\ call'.agent \in DOMAIN agents)
          => LET row == agents[call'.agent] IN
             /\ row.context_updated_at # NoTime
             /\ now - row.context_updated_at[1]
                   <= CLASS_STALENESS_SECONDS(row.agent_class)[1]]_vars

\* A registered agent that never called set_context, with an empty inbox and
\* an active plan, was refused.
C8_Witness ==
    /\ call.op = "send"
    /\ ret = "blocked_context_unset"
    /\ call.agent \in DOMAIN agents
    /\ agents[call.agent].context_updated_at = NoTime
    /\ UnreadCount(messages, broadcast_reads, call.agent) = 0
    /\ \E p \in battle_plan : p.status = "active"

(***************************************************************************)
(* Sends across a session: plans are set, moved to another status and      *)
(* completed by end_session while L and C send.  The clock stands still,   *)
(* so a context that was set stays fresh.                                  *)
(***************************************************************************)
CommsNames == {"L", "C"}
CommsClassOf(a) == IF a = "L" THEN "lead" ELSE "coder"
CommsTargets == {"active", "completed"}

NextComms ==
    \/ \E a \in CommsNames : register(a, CommsClassOf(a), "", "terminal")
    \/ \E a \in CommsNames : set_context(a)
    \/ \E a \in CommsNames : set_battle_plan(a, "go")
    \/ \E a \in CommsNames, i \in 1..MaxPlans, s \in CommsTargets :
          update_battle_plan_status(a, i, s)
    \/ \E a \in CommsNames, e \in BOOLEAN : debrief(a, "debrief.md", e)
    \/ \E a \in CommsNames : end_session(a)
    \/ send("L", "all", TextHi, <<>>)
    \/ send("C", "L", TextHi, <<>>)

SpecComms == Init /\ [][NextComms]_vars

\* C7: send persists a message only in a state where some battle plan is
\* active, and the send that follows a successful end_session is refused
\* (no set_battle_plan came in between).
C7_NoSendAfterSessionEnd ==
    [][/\ (call'.op = "send" /\ ret' = "ok") => ActivePlans(battle_plan) # {}
       /\ (call.op = "end_session" /\ ret = "ok" /\ call'.op = "send")
             => ret' # "ok"]_vars

(***************************************************************************)
(* Statement-level execution.  Every server process opens its own          *)
(* connection to the one database file (get_db), so two calls interleave   *)
(* at their cursor.execute / conn.commit statements.  sqlite3 runs a       *)
(* SELECT outside any transaction, on the committed store.  The first      *)
(* INSERT or UPDATE of a call begins a transaction and takes the file's    *)
(* write lock; its changes stay in the connection (pending) until          *)
(* conn.commit() publishes them and frees the lock.  A call that needs the *)
(* lock while another connection holds it waits, and when the wait times   *)
(* out the statement raises "database is locked": the handler's except     *)
(* clause returns an error and conn.close() leaves the store untouched.    *)
(***************************************************************************)
Procs == {"p1", "p2"}

\* The committed store, as a connection reads it when its transaction begins.
Store ==
    [agents |-> agents, messages |-> messages, msg_seq |-> msg_seq,
     broadcast_reads |-> broadcast_reads, battle_plan |-> battle_plan,
     plan_seq |-> plan_seq, raid_log |-> raid_log, tasks |-> tasks,
     task_seq |-> task_seq, file_claims |-> file_claims,
     file_waitlist |-> file_waitlist, flags |-> flags]

\* The handler's arguments and locals.
Frame(op, agent_name, arg) ==
    [op |-> op, agent |-> agent_name, arg |-> arg, ret |-> "none"]

Enter(p, frame, label) ==
    /\ p \notin DOMAIN pc
    /\ pc' = pc @@ (p :> label)
    /\ loc' = loc @@ (p :> frame)

At_(p, op, label) ==
    /\ p \in DOMAIN pc
    /\ pc[p] = label
    /\ loc[p].op = op

Goto(p, label) ==
    /\ pc' = [pc EXCEPT ![p] = label]
    /\ loc' = loc

\* return ...; finally: conn.close()
Return(p, r) ==
    /\ pc' = [pc EXCEPT ![p] = "done"]
    /\ loc' = [loc EXCEPT ![p].ret = r]

\* The first write of a call: BEGIN, and the write lock is free.
Begin(p, db) ==
    /\ writer = NoProc
    /\ writer' = p
    /\ pending' = db

\* conn.commit(): the lock is released and pending is forgotten.
Unlock ==
    /\ writer' = NoProc
    /\ pending' = EmptyDb

WriteLabels == {"insert_claim", "insert_waiter", "supersede", "auto_register",
                "update_tasks"}

\* sqlite3.OperationalError: database is locked
DatabaseLocked(p) ==
    /\ p \in DOMAIN pc
    /\ pc[p] \in WriteLabels
    /\ writer \notin {NoProc, p}
    /\ Return(p, "error_locked")
    /\ UNCHANGED <<now, dbVars, call, ret, out, writer, pending>>

(***************************************************************************)
(* claim_file, statement by statement                                      *)
(***************************************************************************)
\* normalized = os.path.abspath(file_path); conn = get_db()
claim_file_call(p, agent_name, file_path) ==
    /\ Enter(p, Frame("claim_file", agent_name, Normalized(file_path)), "select_agent")
    /\ UNCHANGED <<now, dbVars, call, ret, out, writer, pending>>

\* SELECT name FROM agents WHERE name = ?
claim_file_select_agent(p) ==
    /\ At_(p, "claim_file", "select_agent")
    /\ IF loc[p].agent \notin DOMAIN agents
       THEN Return(p, "blocked_not_registered")
       ELSE Goto(p, "select_claim")
    /\ UNCHANGED <<now, dbVars, call, ret, out, writer, pending>>

\* SELECT agent_name, claimed_at FROM file_claims WHERE file_path = ?
claim_file_select_claim(p) ==
    LET existing == ClaimsOn(file_claims, loc[p].arg) IN
    /\ At_(p, "claim_file", "select_claim")
    /\ IF existing = {} THEN Goto(p, "insert_claim")
       ELSE IF \E c \in existing : c.agent_name = loc[p].agent
       THEN Return(p, "already_yours")
       ELSE Goto(p, "insert_waiter")
    /\ UNCHANGED <<now, dbVars, call, ret, out, writer, pending>>

\* INSERT OR IGNORE INTO file_waitlist ...
claim_file_insert_waiter(p) ==
    /\ At_(p, "claim_file", "insert_waiter")
    /\ Begin(p, [Store EXCEPT !.file_waitlist =
                    InsertWaiter(file_waitlist, loc[p].arg, loc[p].agent, now)])
    /\ Goto(p, "commit_waiter")
    /\ UNCHANGED <<now, dbVars, call, ret, out>>

\* conn.commit(); return BLOCKED ... added to the waitlist
claim_file_commit_waiter(p) ==
    /\ At_(p, "claim_file", "commit_waiter")
    /\ file_waitlist' = pending.file_waitlist
    /\ first_blocked' = FirstBlocked(first_blocked, file_waitlist, file_waitlist')
    /\ Unlock
    /\ Return(p, "blocked_claimed")
    /\ UNCHANGED <<now, agentVars, mailVars, planVars, logVars, taskVars,
                   file_claims, flagVars, call, ret, out>>

\* INSERT INTO file_claims ...: the row is checked against the PRIMARY KEY
\* of the store as it is now, not as select_claim saw it.
claim_file_insert_claim(p) ==
    /\ At_(p, "claim_file", "insert_claim")
    /\ writer = NoProc
    /\ IF ClaimInsertFails(file_claims, loc[p].arg)
       THEN /\ Return(p, "error_unique")
            /\ UNCHANGED <<writer, pending>>
       ELSE /\ Begin(p, [Store EXCEPT !.file_claims =
                            InsertClaim(file_claims, loc[p].arg, loc[p].agent, now)])
            /\ Goto(p, "update_last_seen")
    /\ UNCHANGED <<now, dbVars, call, ret, out>>

\* UPDATE agents SET last_seen = ? WHERE name = ?
claim_file_update_last_seen(p) ==
    /\ At_(p, "claim_file", "update_last_seen")
    /\ pending' = [pending EXCEPT !.agents = TouchLastSeen(@, loc[p].agent, now)]
    /\ Goto(p, "commit")
    /\ UNCHANGED <<now, dbVars, call, ret, out, writer>>

\* conn.commit(); return File claimed
claim_file_commit(p) ==
    /\ At_(p, "claim_file", "commit")
    /\ file_claims' = pending.file_claims
    /\ agents' = pending.agents
    /\ Unlock
    /\ Return(p, "ok")
    /\ UNCHANGED <<now, mailVars, planVars, logVars, taskVars, file_waitlist,
                   first_blocked, flagVars, call, ret, out>>

RaceAgents == {"A", "B"}
RacePaths == {Path(TRUE, <<"x">>), Path(FALSE, <<"..", "x">>)}

NextClaimRace ==
    \/ \E a \in RaceAgents : pc = <<>> /\ register(a, "coder", "", "terminal")
    \/ \E p \in Procs, a \in RaceAgents, f \in RacePaths : claim_file_call(p, a, f)
    \/ \E p \in Procs : claim_file_select_agent(p)
    \/ \E p \in Procs : claim_file_select_claim(p)
    \/ \E p \in Procs : claim_file_insert_waiter(p)
    \/ \E p \in Procs : claim_file_commit_waiter(p)
    \/ \E p \in Procs : claim_file_insert_claim(p)
    \/ \E p \in Procs : claim_file_update_last_seen(p)
    \/ \E p \in Procs : claim_file_commit(p)
    \/ \E p \in Procs : DatabaseLocked(p)

SpecClaimRace == Init /\ [][NextClaimRace]_vars

\* C9: of two claim_file calls by different agents on the same unclaimed
\* path, interleaved statement by statement, at most one is granted.
C9_AtMostOneGranted ==
    \A p \in DOMAIN pc, q \in DOMAIN pc :
        (/\ p # q
         /\ loc[p].op = "claim_file" /\ loc[q].op = "claim_file"
         /\ loc[p].agent # loc[q].agent
         /\ loc[p].arg = loc[q].arg
         /\ loc[p].ret = "ok")
        => loc[q].ret # "ok"

\* Both calls found the path unclaimed; one was granted and the other's
\* INSERT hit the PRIMARY KEY.
C9_Witness ==
    \E p \in DOMAIN pc, q \in DOMAIN pc :
        /\ loc[p].agent # loc[q].agent
        /\ loc[p].arg = loc[q].arg
        /\ loc[p].ret = "ok"
        /\ loc[q].ret = "error_unique"
        /\ Cardinality(ClaimsOn(file_claims, loc[p].arg)) = 1

(***************************************************************************)
(* set_battle_plan, statement by statement                                 *)
(***************************************************************************)
\* conn = get_db()
set_battle_plan_call(p, agent_name, plan) ==
    /\ Enter(p, Frame("set_battle_plan", agent_name, plan), "select_class")
    /\ UNCHANGED <<now, dbVars, call, ret, out, writer, pending>>

\* SELECT agent_class FROM agents WHERE name = ?
set_battle_plan_select_class(p) ==
    /\ At_(p, "set_battle_plan", "select_class")
    /\ IF LeadCheck(agents, loc[p].agent) # "ok"
       THEN Return(p, LeadCheck(agents, loc[p].agent))
       ELSE Goto(p, "supersede")
    /\ UNCHANGED <<now, dbVars, call, ret, out, writer, pending>>

\* UPDATE battle_plan SET status = 'superseded' ... WHERE status = 'active'
set_battle_plan_supersede(p) ==
    /\ At_(p, "set_battle_plan", "supersede")
    /\ Begin(p, [Store EXCEPT !.battle_plan = SupersedeActive(battle_plan, now)])
    /\ Goto(p, "insert_plan")
    /\ UNCHANGED <<now, dbVars, call, ret, out>>

\* INSERT INTO battle_plan ... VALUES (?, ?, 'active', ?, ?)
set_battle_plan_insert(p) ==
    /\ At_(p, "set_battle_plan", "insert_plan")
    /\ pending' = [pending EXCEPT
          !.battle_plan = InsertPlan(@, pending.plan_seq + 1, loc[p].agent,
                                     loc[p].arg, now),
          !.plan_seq = @ + 1]
    /\ Goto(p, "commit")
    /\ UNCHANGED <<now, dbVars, call, ret, out, writer>>

\* conn.commit(); return Battle plan #... set
set_battle_plan_commit(p) ==
    /\ At_(p, "set_battle_plan", "commit")
    /\ battle_plan' = pending.battle_plan
    /\ plan_seq' = pending.plan_seq
    /\ Unlock
    /\ Return(p, "ok")
    /\ UNCHANGED <<now, agentVars, mailVars, logVars, taskVars, fileVars,
                   flagVars, call, ret, out>>

RaceLeads == {"L", "M"}
RaceClasses == {"lead", "coder"}
RacePlans == {"go", "hold"}

NextPlanRace ==
    \/ \E a \in RaceLeads, c \in RaceClasses :
          pc = <<>> /\ register(a, c, "", "terminal")
    \/ \E p \in Procs, a \in RaceLeads, t \in RacePlans : set_battle_plan_call(p, a, t)
    \/ \E p \in Procs : set_battle_plan_select_class(p)
    \/ \E p \in Procs : set_battle_plan_supersede(p)
    \/ \E p \in Procs : set_battle_plan_insert(p)
    \/ \E p \in Procs : set_battle_plan_commit(p)
    \/ \E p \in Procs : DatabaseLocked(p)

SpecPlanRace == Init /\ [][NextPlanRace]_vars

\* C10: when two set_battle_plan calls by leads, interleaved statement by
\* statement, have both committed, exactly one plan has status active.
C10_OneActiveAfterBoth ==
    (\A p \in Procs : /\ p \in DOMAIN pc
                      /\ loc[p].op = "set_battle_plan"
                      /\ loc[p].ret = "ok")
    => Cardinality(ActivePlans(battle_plan)) = 1

\* Both calls have committed: two plans, the first one superseded.
C10_Witness ==
    /\ \A p \in Procs : p \in DOMAIN pc /\ loc[p].ret = "ok"
    /\ \E p \in Procs, q \in Procs : loc[p].agent # loc[q].agent
    /\ {r.status : r \in battle_plan} = {"superseded", "active"}
    /\ plan_seq = 2

(***************************************************************************)
(* send, statement by statement.  The four gate queries are SELECTs on the *)
(* committed store; the transaction begins at the auto-register INSERT.    *)
(***************************************************************************)
\* SELECT COUNT(*) FROM messages WHERE to_agent = ? AND read_flag = 0
UnreadDirect(msgs, agent_name) ==
    Cardinality({m \in msgs : m.to_agent = agent_name /\ ~m.read_flag})

\* SELECT COUNT(*) ... WHERE to_agent = 'all' AND from_agent != ? AND id NOT IN ...
UnreadBroadcast(msgs, reads, agent_name) ==
    Cardinality({m \in msgs : /\ m.to_agent = "all"
                              /\ m.from_agent # agent_name
                              /\ <<agent_name, m.id>> \notin reads})

\* conn = get_db(); now = ...
send_call(p, from_agent, to_agent, message, cc) ==
    /\ Enter(p, Frame("send", from_agent, to_agent)
                  @@ [message |-> message, cc |-> cc, unread |-> 0,
                      cc_agents |-> <<>>],
             "count_direct")
    /\ UNCHANGED <<now, dbVars, call, ret, out, writer, pending>>

send_count_direct(p) ==
    /\ At_(p, "send", "count_direct")
    /\ pc' = [pc EXCEPT ![p] = "count_broadcast"]
    /\ loc' = [loc EXCEPT ![p].unread = UnreadDirect(messages, loc[p].agent)]
    /\ UNCHANGED <<now, dbVars, call, ret, out, writer, pending>>

\* unread = unread_direct + unread_broadcast; if unread > 0: return BLOCKED
send_count_broadcast(p) ==
    /\ At_(p, "send", "count_broadcast")
    /\ IF loc[p].unread
            + UnreadBroadcast(messages, broadcast_reads, loc[p].agent) > 0
       THEN Return(p, "blocked_unread")
       ELSE Goto(p, "count_plans")
    /\ UNCHANGED <<now, dbVars, call, ret, out, writer, pending>>

\* SELECT COUNT(*) FROM battle_plan WHERE status = 'active'
send_count_plans(p) ==
    /\ At_(p, "send", "count_plans")
    /\ IF NoActivePlan(battle_plan)
       THEN Return(p, "blocked_no_plan")
       ELSE Goto(p, "staleness")
    /\ UNCHANGED <<now, dbVars, call, ret, out, writer, pending>>

\* is_stale, stale_msg = _staleness_check(cursor, from_agent)
send_staleness(p) ==
    /\ At_(p, "send", "staleness")
    /\ IF _staleness_check(agents, loc[p].agent, now) # ""
       THEN Return(p, _staleness_check(agents, loc[p].agent, now))
       ELSE Goto(p, "auto_register")
    /\ UNCHANGED <<now, dbVars, call, ret, out, writer, pending>>

\* INSERT OR IGNORE INTO agents ...: the first write of send.
send_auto_register(p) ==
    /\ At_(p, "send", "auto_register")
    /\ msg_seq < MaxMsgs
    /\ Begin(p, [Store EXCEPT !.agents = AutoRegister(agents, loc[p].agent, now)])
    /\ Goto(p, "insert_message")
    /\ UNCHANGED <<now, dbVars, call, ret, out>>

\* INSERT INTO messages ... VALUES (?, ?, ?, ?, 0, 0)
send_insert_message(p) ==
    /\ At_(p, "send", "insert_message")
    /\ pending' = [pending EXCEPT
          !.messages = @ \cup {MessageRow(pending.msg_seq + 1, loc[p].agent,
                                          loc[p].arg, loc[p].message, now, FALSE, NULL)},
          !.msg_seq = @ + 1]
    /\ Goto(p, "get_lead")
    /\ UNCHANGED <<now, dbVars, call, ret, out, writer>>

\* cc_agents = ...; lead_name = _get_lead(cursor); cc_agents.append(lead_name)
send_get_lead(p) ==
    /\ At_(p, "send", "get_lead")
    /\ pc' = [pc EXCEPT ![p] = "insert_cc"]
    /\ loc' = [loc EXCEPT ![p].cc_agents =
                  CcAgents(pending.agents, loc[p].agent, loc[p].arg, loc[p].cc)]
    /\ UNCHANGED <<now, dbVars, call, ret, out, writer, pending>>

\* for cc_agent in cc_agents: if cc_agent != to_agent: INSERT INTO messages ...
send_insert_cc(p) ==
    /\ At_(p, "send", "insert_cc")
    /\ IF loc[p].cc_agents = <<>>
       THEN /\ Goto(p, "update_last_seen")
            /\ pending' = pending
       ELSE /\ pc' = pc
            /\ loc' = [loc EXCEPT ![p].cc_agents = Tail(@)]
            /\ pending' =
                 IF Head(loc[p].cc_agents) = loc[p].arg THEN pending
                 ELSE [pending EXCEPT
                         !.messages = @ \cup
                            {MessageRow(pending.msg_seq + 1, loc[p].agent,
                                        Head(loc[p].cc_agents), loc[p].message,
                                        now, TRUE, loc[p].arg)},
                         !.msg_seq = @ + 1]
    /\ UNCHANGED <<now, dbVars, call, ret, out, writer>>

\* UPDATE agents SET last_seen = ? WHERE name = ?; SELECT transport ...
send_update_last_seen(p) ==
    /\ At_(p, "send", "update_last_seen")
    /\ pending' = [pending EXCEPT !.agents = TouchLastSeen(@, loc[p].agent, now)]
    /\ Goto(p, "set_flag")
    /\ UNCHANGED <<now, dbVars, call, ret, out, writer>>

\* triggers_found = _scan_triggers(message); if "moon_crash" in triggers_found: ...
send_set_flag(p) ==
    /\ At_(p, "send", "set_flag")
    /\ pending' = [pending EXCEPT
          !.flags = SendFlags(@, "ok", loc[p].message, loc[p].agent, now)]
    /\ Goto(p, "commit")
    /\ UNCHANGED <<now, dbVars, call, ret, out, writer>>

\* conn.commit(); return Message sent ...
send_commit(p) ==
    /\ At_(p, "send", "commit")
    /\ agents' = pending.agents
    /\ messages' = pending.messages
    /\ msg_seq' = pending.msg_seq
    /\ flags' = pending.flags
    /\ Unlock
    /\ Return(p, "ok")
    /\ UNCHANGED <<now, broadcast_reads, planVars, logVars, taskVars, fileVars,
                   call, ret, out>>

\* L is the lead and C a coder; each writes to the other or broadcasts.
SendRaceNames == {"L", "C"}
SendRaceClassOf(a) == IF a = "L" THEN "lead" ELSE "coder"
SendRaceCalls == {<<"L", "C">>, <<"C", "L">>, <<"L", "all">>}

NextSendRace ==
    \/ \E a \in SendRaceNames :
          pc = <<>> /\ register(a, SendRaceClassOf(a), "", "terminal")
    \/ \E a \in SendRaceNames : pc = <<>> /\ set_context(a)
    \/ pc = <<>> /\ plan_seq = 0 /\ set_battle_plan("L", "go")
    \/ \E a \in SendRaceNames : writer = NoProc /\ check_inbox(a)
    \/ \E p \in Procs, c \in SendRaceCalls : send_call(p, c[1], c[2], TextHi, <<>>)
    \/ \E p \in Procs : send_count_direct(p)
    \/ \E p \in Procs : send_count_broadcast(p)
    \/ \E p \in Procs : send_count_plans(p)
    \/ \E p \in Procs : send_staleness(p)
    \/ \E p \in Procs : send_auto_register(p)
    \/ \E p \in Procs : send_insert_message(p)
    \/ \E p \in Procs : send_get_lead(p)
    \/ \E p \in Procs : send_insert_cc(p)
    \/ \E p \in Procs : send_update_last_seen(p)
    \/ \E p \in Procs : send_set_flag(p)
    \/ \E p \in Procs : send_commit(p)
    \/ \E p \in Procs : DatabaseLocked(p)

SpecSendRace == Init /\ [][NextSendRace]_vars

\* C11: a send commits its message only while its sender has no unread
\* message in the committed store: none addressed to it, and no broadcast by
\* another agent, arrived since the sender's inbox was last drained.
C11_SendCommitsWithEmptyInbox ==
    [][\A p \in DOMAIN pc :
          (loc[p].op = "send" /\ pc[p] = "commit" /\ pc'[p] = "done")
          => UnreadCount(messages, broadcast_reads, loc[p].agent) = 0]_vars

(***************************************************************************)
(* update_task, assign_task and close_task, statement by statement         *)
(***************************************************************************)
\* The status checks before get_db(), then conn = get_db()
update_task_call(p, agent_name, task_id, status, progress, files) ==
    LET frame == Frame("update_task", agent_name,
                       [id |-> task_id, status |-> status, progress |-> progress,
                        files |-> files])
    IN
    /\ IF status # "" /\ status \notin TASK_STATUSES
       THEN Enter(p, [frame EXCEPT !.ret = "invalid_status"], "done")
       ELSE IF ClosedBarred(status)
       THEN Enter(p, [frame EXCEPT !.ret = "blocked_use_close_task"], "done")
       ELSE Enter(p, frame, "select_agent")
    /\ UNCHANGED <<now, dbVars, call, ret, out, writer, pending>>

\* SELECT name FROM agents WHERE name = ?
update_task_select_agent(p) ==
    /\ At_(p, "update_task", "select_agent")
    /\ IF loc[p].agent \notin DOMAIN agents
       THEN Return(p, "blocked_not_registered")
       ELSE Goto(p, "select_task")
    /\ UNCHANGED <<now, dbVars, call, ret, out, writer, pending>>

\* SELECT id, status, activity_count, title FROM tasks WHERE id = ?
update_task_select_task(p) ==
    LET found == TaskById(tasks, loc[p].arg.id) IN
    /\ At_(p, "update_task", "select_task")
    /\ IF found = {} THEN Return(p, "not_found")
       ELSE IF \E t \in found : IsClosed(t) THEN Return(p, "blocked_closed")
       ELSE Goto(p, "update_tasks")
    /\ UNCHANGED <<now, dbVars, call, ret, out, writer, pending>>

\* UPDATE tasks SET activity_count = activity_count + 1, ... WHERE id = ?: the
\* row the statement changes is the row of the store as it is now.
update_task_update_tasks(p) ==
    /\ At_(p, "update_task", "update_tasks")
    /\ Begin(p, [Store EXCEPT !.tasks =
                    {IF t.id = loc[p].arg.id
                     THEN UpdatedTask(t, loc[p].arg.status, loc[p].arg.progress,
                                      loc[p].arg.files, now)
                     ELSE t : t \in tasks}])
    /\ Goto(p, "update_last_seen")
    /\ UNCHANGED <<now, dbVars, call, ret, out>>

\* UPDATE agents SET last_seen = ? WHERE name = ?
update_task_update_last_seen(p) ==
    /\ At_(p, "update_task", "update_last_seen")
    /\ pending' = [pending EXCEPT !.agents = TouchLastSeen(@, loc[p].agent, now)]
    /\ Goto(p, "commit")
    /\ UNCHANGED <<now, dbVars, call, ret, out, writer>>

\* conn.commit(); return Task updated
update_task_commit(p) ==
    /\ At_(p, "update_task", "commit")
    /\ tasks' = pending.tasks
    /\ agents' = pending.agents
    /\ Unlock
    /\ Return(p, "ok")
    /\ UNCHANGED <<now, mailVars, planVars, logVars, task_seq, fileVars, flagVars,
                   call, ret, out>>

\* conn = get_db()
assign_task_call(p, agent_name, task_id, assigned_to) ==
    /\ Enter(p, Frame("assign_task", agent_name,
                      [id |-> task_id, assigned_to |-> assigned_to]), "select_flag")
    /\ UNCHANGED <<now, dbVars, call, ret, out, writer, pending>>

\* SELECT value, set_by, set_at FROM flags WHERE key = 'moon_crash'
assign_task_select_flag(p) ==
    /\ At_(p, "assign_task", "select_flag")
    /\ IF MoonCrashActive(flags) THEN Return(p, "blocked_moon_crash")
       ELSE Goto(p, "select_agent")
    /\ UNCHANGED <<now, dbVars, call, ret, out, writer, pending>>

\* SELECT agent_class FROM agents WHERE name = ?
assign_task_select_agent(p) ==
    /\ At_(p, "assign_task", "select_agent")
    /\ IF LeadCheck(agents, loc[p].agent) # "ok"
       THEN Return(p, LeadCheck(agents, loc[p].agent))
       ELSE Goto(p, "select_assignee")
    /\ UNCHANGED <<now, dbVars, call, ret, out, writer, pending>>

\* SELECT name FROM agents WHERE name = ? (assigned_to)
assign_task_select_assignee(p) ==
    /\ At_(p, "assign_task", "select_assignee")
    /\ IF loc[p].arg.assigned_to \notin DOMAIN agents
       THEN Return(p, "blocked_no_assignee")
       ELSE Goto(p, "select_task")
    /\ UNCHANGED <<now, dbVars, call, ret, out, writer, pending>>

\* SELECT id, status FROM tasks WHERE id = ?
assign_task_select_task(p) ==
    LET found == TaskById(tasks, loc[p].arg.id) IN
    /\ At_(p, "assign_task", "select_task")
    /\ IF found = {} THEN Return(p, "not_found")
       ELSE IF \E t \in found : IsClosed(t) THEN Return(p, "blocked_closed")
       ELSE Goto(p, "update_tasks")
    /\ UNCHANGED <<now, dbVars, call, ret, out, writer, pending>>

\* UPDATE tasks SET assigned_to = ?, status = 'assigned', updated_at = ? WHERE id = ?
assign_task_update_tasks(p) ==
    /\ At_(p, "assign_task", "update_tasks")
    /\ Begin(p, [Store EXCEPT !.tasks =
                    {IF t.id = loc[p].arg.id
                     THEN [t EXCEPT !.assigned_to = loc[p].arg.assigned_to,
                                    !.status = "assigned", !.updated_at = now]
                     ELSE t : t \in tasks}])
    /\ Goto(p, "commit")
    /\ UNCHANGED <<now, dbVars, call, ret, out>>

\* conn.commit(); return Task assigned
assign_task_commit(p) ==
    /\ At_(p, "assign_task", "commit")
    /\ tasks' = pending.tasks
    /\ Unlock
    /\ Return(p, "ok")
    /\ UNCHANGED <<now, agentVars, mailVars, planVars, logVars, task_seq, fileVars,
                   flagVars, call, ret, out>>

\* conn = get_db()
close_task_call(p, agent_name, task_id) ==
    /\ Enter(p, Frame("close_task", agent_name, [id |-> task_id]), "select_agent")
    /\ UNCHANGED <<now, dbVars, call, ret, out, writer, pending>>

\* SELECT agent_class FROM agents WHERE name = ?
close_task_select_agent(p) ==
    /\ At_(p, "close_task", "select_agent")
    /\ IF LeadCheck(agents, loc[p].agent) # "ok"
       THEN Return(p, LeadCheck(agents, loc[p].agent))
       ELSE Goto(p, "select_task")
    /\ UNCHANGED <<now, dbVars, call, ret, out, writer, pending>>

\* SELECT id, status, result_file, title FROM tasks WHERE id = ?
close_task_select_task(p) ==
    LET found == TaskById(tasks, loc[p].arg.id) IN
    /\ At_(p, "close_task", "select_task")
    /\ IF found = {} THEN Return(p, "not_found")
       ELSE IF \E t \in found : IsClosed(t) THEN Return(p, "already_closed")
       ELSE IF \E t \in found : HasNoResult(t) THEN Return(p, "blocked_no_result")
       ELSE Goto(p, "update_tasks")
    /\ UNCHANGED <<now, dbVars, call, ret, out, writer, pending>>

\* UPDATE tasks SET status = 'closed', updated_at = ? WHERE id = ?
close_task_update_tasks(p) ==
    /\ At_(p, "close_task", "update_tasks")
    /\ Begin(p, [Store EXCEPT !.tasks =
                    {IF t.id = loc[p].arg.id
                     THEN [t EXCEPT !.status = "closed", !.updated_at = now]
                     ELSE t : t \in tasks}])
    /\ Goto(p, "commit")
    /\ UNCHANGED <<now, dbVars, call, ret, out>>

\* conn.commit(); return Task closed
close_task_commit(p) ==
    /\ At_(p, "close_task", "commit")
    /\ tasks' = pending.tasks
    /\ Unlock
    /\ Return(p, "ok")
    /\ UNCHANGED <<now, agentVars, mailVars, planVars, logVars, task_seq, fileVars,
                   flagVars, call, ret, out>>

(***************************************************************************)
(* A lead L and a coder C prepare one task with a result file; then two    *)
(* connections run update_task, assign_task and close_task on it.          *)
(***************************************************************************)
TaskRaceNames == {"L", "C"}
TaskRaceClassOf(a) == IF a = "L" THEN "lead" ELSE "coder"
TaskRaceStatusArgs == {"", "in_progress", "closed"}

NextTaskRace ==
    \/ \E a \in TaskRaceNames :
          pc = <<>> /\ register(a, TaskRaceClassOf(a), "", "terminal")
    \/ pc = <<>> /\ plan_seq = 0 /\ set_battle_plan("L", "go")
    \/ pc = <<>> /\ create_task("L", "t", TRUE, <<>>)
    \/ pc = <<>> /\ submit_result("C", 1, "r.md", TRUE)
    \/ \E p \in Procs, st \in TaskRaceStatusArgs : update_task_call(p, "C", 1, st, "wip", "")
    \/ \E p \in Procs : update_task_select_agent(p)
    \/ \E p \in Procs : update_task_select_task(p)
    \/ \E p \in Procs : update_task_update_tasks(p)
    \/ \E p \in Procs : update_task_update_last_seen(p)
    \/ \E p \in Procs : update_task_commit(p)
    \/ \E p \in Procs : assign_task_call(p, "L", 1, "C")
    \/ \E p \in Procs : assign_task_select_flag(p)
    \/ \E p \in Procs : assign_task_select_agent(p)
    \/ \E p \in Procs : assign_task_select_assignee(p)
    \/ \E p \in Procs : assign_task_select_task(p)
    \/ \E p \in Procs : assign_task_update_tasks(p)
    \/ \E p \in Procs : assign_task_commit(p)
    \/ \E p \in Procs, a \in TaskRaceNames : close_task_call(p, a, 1)
    \/ \E p \in Procs : close_task_select_agent(p)
    \/ \E p \in Procs : close_task_select_task(p)
    \/ \E p \in Procs : close_task_update_tasks(p)
    \/ \E p \in Procs : close_task_commit(p)
    \/ \E p \in Procs : DatabaseLocked(p)

SpecTaskRace == Init /\ [][NextTaskRace]_vars

\* C36: a task that a close_task call, interleaved statement by statement
\* with update_task and assign_task calls on the same task, has reported
\* closed has status closed.
C36_ClosedStaysClosed ==
    \A p \in DOMAIN pc :
        (loc[p].op = "close_task" /\ loc[p].ret = "ok")
           => \A t \in TaskById(tasks, loc[p].arg.id) : t.status = "closed"

(***************************************************************************)
(* The mailbox under sequential calls: L (lead) and C (coder) write to     *)
(* each other and broadcast, anyone drains an inbox, and C may be renamed  *)
(* to D.  The clock stands still.                                          *)
(***************************************************************************)
MailNames == {"L", "C"}
MailReaders == {"L", "C", "D"}
MailClassOf(a) == IF a = "L" THEN "lead" ELSE "coder"
MailSends == {<<"C", "L">>, <<"L", "C">>, <<"C", "all">>, <<"L", "all">>}

NextMail ==
    \/ \E a \in MailNames : register(a, MailClassOf(a), "", "terminal")
    \/ \E a \in MailNames : set_context(a)
    \/ plan_seq = 0 /\ set_battle_plan("L", "go")
    \/ \E c \in MailSends : send(c[1], c[2], TextHi, <<>>)
    \/ \E a \in MailReaders : check_inbox(a)
    \/ rename("C", "D")

SpecMail == Init /\ [][NextMail]_vars

\* C12: check_inbox is idempotent: a second call by the same agent right
\* after the first returns no message, does not error, and changes no read
\* flag and no broadcast-read entry.
C12_CheckInboxIdempotent ==
    [][(/\ call.op = "check_inbox" /\ ret = "ok"
        /\ call'.op = "check_inbox" /\ call'.agent = call.agent)
          => /\ ret' = "ok"
             /\ out' = <<>>
             /\ messages' = messages
             /\ broadcast_reads' = broadcast_reads]_vars

\* A check_inbox that returned nothing although the agent has been sent a
\* direct message and a broadcast: both were drained before.
C12_Witness ==
    /\ call.op = "check_inbox"
    /\ ret = "ok"
    /\ out = <<>>
    /\ \E m \in messages : m.to_agent = call.agent /\ m.read_flag
    /\ \E m \in messages : m.to_agent = "all" /\ <<call.agent, m.id>> \in broadcast_reads

C34_OwnBroadcastNotReturned ==
    [][call'.op = "check_inbox"
          => \A m \in messages :
                (m.to_agent = "all" /\ m.from_agent = call'.agent)
                   => /\ ~InSeq(m.id, out')
                      /\ (<<call'.agent, m.id>> \in broadcast_reads'
                             => <<call'.agent, m.id>> \in broadcast_reads)]_vars

\* C35: a send made by an agent right after its own check_inbox is not
\* refused by the unread-inbox gate, whatever the others have sent or read.
C35_CheckInboxUnblocks ==
    [][(/\ call.op = "check_inbox"
        /\ call'.op = "send" /\ call'.agent = call.agent)
          => ret' # "blocked_unread"]_vars

\* A send was accepted after the sender's check_inbox had acknowledged a
\* broadcast of another agent.
C35_Witness ==
    /\ call.op = "send"
    /\ ret = "ok"
    /\ \E m \in messages : /\ m.to_agent = "all"
                           /\ m.from_agent # call.agent
                           /\ <<call.agent, m.id>> \in broadcast_reads

\* C37 as stated: a send from an unregistered name while a plan is active is
\* accepted and creates the sender as a coder with context unset, and a later
\* send by that agent (it has sent, and its context is unset) is refused by
\* the staleness gate.
C37_UnknownSenderAccepted ==
    [][call'.op = "send"
          => LET a == call'.agent IN
             /\ (a \notin DOMAIN agents /\ ActivePlans(battle_plan) # {})
                   => /\ ret' = "ok"
                      /\ a \in DOMAIN agents'
                      /\ agents'[a].agent_class = "coder"
                      /\ agents'[a].context_updated_at = NoTime
             /\ (/\ a \in DOMAIN agents
                 /\ agents[a].context_updated_at = NoTime
                 /\ \E m \in messages : m.from_agent = a)
                   => ret' = "blocked_context_unset"]_vars

\* C37 amended: a send from an unregistered name that has no unread message,
\* made while a plan is active, is accepted and creates the sender as a coder
\* with context unset; a send by a registered agent whose context is unset is
\* never accepted: it is refused by the unread gate, the plan gate or, when it
\* passes both, the staleness gate; and an unset context becomes set only by
\* the agent's set_context.
C37_UnknownSenderAmended ==
    [][/\ call'.op = "send"
          => LET a == call'.agent
                 passes == /\ UnreadCount(messages, broadcast_reads, a) = 0
                           /\ ActivePlans(battle_plan) # {}
             IN
             /\ (a \notin DOMAIN agents /\ passes)
                   => /\ ret' = "ok"
                      /\ a \in DOMAIN agents'
                      /\ agents'[a].agent_class = "coder"
                      /\ agents'[a].context_updated_at = NoTime
             /\ (a \in DOMAIN agents /\ agents[a].context_updated_at = NoTime)
                   => /\ ret' \in {"blocked_unread", "blocked_no_plan",
                                   "blocked_context_unset"}
                      /\ passes => ret' = "blocked_context_unset"
       /\ \A a \in DOMAIN agents \cap DOMAIN agents' :
             (/\ agents[a].context_updated_at = NoTime
              /\ agents'[a].context_updated_at # NoTime)
                => call'.op = "set_context" /\ call'.agent = a]_vars

\* The second send of a sender that its first send had created: refused by
\* the staleness gate.
C37_Witness ==
    /\ call.op = "send"
    /\ ret = "blocked_context_unset"
    /\ call.agent \in DOMAIN agents
    /\ agents[call.agent].agent_class = "coder"
    /\ agents[call.agent].context_updated_at = NoTime
    /\ \E m \in messages : m.from_agent = call.agent

\* C27: rename(old, new) succeeds only if old is registered and new is not;
\* after it succeeds no message has old as from, to or cc-original-to, no
\* broadcast-read entry belongs to old, and the unread direct messages and
\* the unacknowledged broadcasts of other agents that the agent has under new
\* are those it had under old (the two sets the unread gate counts).
C27_RenameKeepsInbox ==
    [][(call'.op = "rename" /\ ret' = "ok")
          => LET old == call'.agent
                 new == call'.arg
             IN /\ old \in DOMAIN agents
                /\ new \notin DOMAIN agents
                /\ \A m \in messages' : /\ m.from_agent # old
                                         /\ m.to_agent # old
                                         /\ m.cc_original_to # old
                /\ \A r \in broadcast_reads' : r[1] # old
                /\ {m.id : m \in {x \in messages' : x.to_agent = new /\ ~x.read_flag}}
                      = {m.id : m \in {x \in messages : x.to_agent = old /\ ~x.read_flag}}
                /\ {m.id : m \in {x \in messages' :
                                     /\ x.to_agent = "all"
                                     /\ x.from_agent # new
                                     /\ <<new, x.id>> \notin broadcast_reads'}}
                      = {m.id : m \in {x \in messages :
                                     /\ x.to_agent = "all"
                                     /\ x.from_agent # old
                                     /\ <<old, x.id>> \notin broadcast_reads}}]_vars

(***************************************************************************)
(* CC fan-out under sequential calls.  L is a lead, C a coder, and D       *)
(* registers as either, so there may be two leads; the cc lists repeat a   *)
(* name, name the primary recipient, and name the lead.                    *)
(***************************************************************************)
CcNames == {"L", "C", "D"}
CcClassesOf(a) ==
    CASE a = "L" -> {"lead"}
      [] a = "C" -> {"coder"}
      [] OTHER   -> {"coder", "lead"}

\* <<from_agent, to_agent, cc>>, cc already split at its commas.
CcSends ==
    {<<"C", "D", <<>>>>, <<"C", "D", <<"D">>>>, <<"C", "D", <<"L", "L">>>>,
     <<"C", "L", <<>>>>, <<"C", "all", <<>>>>,
     <<"L", "C", <<>>>>, <<"L", "C", <<"L">>>>,
     <<"D", "C", <<>>>>}

NextCc ==
    \/ \E a \in CcNames : \E c \in CcClassesOf(a) : register(a, c, "", "terminal")
    \/ \E a \in CcNames : set_context(a)
    \/ plan_seq = 0 /\ set_battle_plan("L", "go")
    \/ \E c \in CcSends : send(c[1], c[2], TextHi, c[3])

SpecCc == Init /\ [][NextCc]_vars

\* C14: no two message rows created by one successful send have the same
\* to_agent, whatever the cc list.
C14_NoDoubleDelivery ==
    [][(call'.op = "send" /\ ret' = "ok")
          => \A m1 \in messages' \ messages, m2 \in messages' \ messages :
                m1.to_agent = m2.to_agent => m1 = m2]_vars

\* C15: a successful send whose sender and primary recipient are not the
\* first-registered lead creates a CC copy addressed to that lead, with
\* cc_original_to the primary recipient; when the sender or the primary
\* recipient is that lead, the only CC rows are those of the explicit list.
C15_AutoCcLead ==
    [][(call'.op = "send" /\ ret' = "ok")
          => LET leads == {n \in DOMAIN agents : agents[n].agent_class = "lead"}
                 first == {n \in leads : \A k \in leads : agents[n].rowid <= agents[k].rowid}
                 new == messages' \ messages
                 to == call'.arg
             IN \A lead \in first :
                  /\ (call'.agent # lead /\ to # lead)
                        => \E m \in new : /\ m.is_cc
                                          /\ m.to_agent = lead
                                          /\ m.cc_original_to = to
                  /\ (call'.agent = lead \/ to = lead)
                        => \A m \in new : m.is_cc => InSeq(m.to_agent, call'.cc)]_vars

\* D, a lead registered after L, wrote to C: the copy went to L and none to D.
C15_Witness ==
    /\ call.op = "send"
    /\ ret = "ok"
    /\ call.agent = "D"
    /\ {"L", "D"} \subseteq DOMAIN agents
    /\ agents["D"].agent_class = "lead"
    /\ agents["L"].agent_class = "lead"
    /\ agents["L"].rowid < agents["D"].rowid
    /\ \E m \in messages : m.is_cc /\ m.from_agent = "D" /\ m.to_agent = "L"
                                   /\ m.cc_original_to = "C"

(***************************************************************************)
(* Further properties of the file claims (SpecFiles)                       *)
(***************************************************************************)
NormalizedPaths == {Normalized(f) : f \in RawPaths}

\* C16: release_file never grants the claim to a waiter: after a successful
\* release the path has no holder, and an unclaimed path gets a holder only
\* by a successful claim_file on that path.
C16_ReleaseNeverGrants ==
    [][/\ (call'.op = "release_file" /\ ret' = "ok")
             => ClaimsOn(file_claims', Normalized(call'.arg)) = {}
       /\ \A f \in NormalizedPaths :
             (ClaimsOn(file_claims, f) = {} /\ ClaimsOn(file_claims', f) # {})
             => /\ call'.op = "claim_file"
                /\ ret' = "ok"
                /\ Normalized(call'.arg) = f
                /\ \A c \in ClaimsOn(file_claims', f) : c.agent_name = call'.agent]_vars

\* A release that returned the waiters of the path and left it unclaimed.
C16_Witness ==
    /\ call.op = "release_file"
    /\ ret = "ok"
    /\ out # <<>>
    /\ ClaimsOn(file_claims, Normalized(call.arg)) = {}

C19_ReleaseAuthority ==
    [][(call'.op = "release_file"
          /\ ClaimsOn(file_claims, Normalized(call'.arg)) # {})
          => LET held == ClaimsOn(file_claims, Normalized(call'.arg))
                 caller == call'.agent
                 allowed ==
                    /\ caller \in DOMAIN agents
                    /\ \/ \A c \in held : c.agent_name = caller
                       \/ agents[caller].agent_class = "lead" /\ call'.flag
             IN IF allowed
                THEN ret' = "ok" /\ file_claims' = file_claims \ held
                ELSE /\ ret' \in {"blocked_not_holder", "blocked_not_registered"}
                     /\ file_claims' = file_claims
                     /\ file_waitlist' = file_waitlist]_vars

\* A lead that does not hold the file asked to release it without force.
C19_Witness ==
    /\ call.op = "release_file"
    /\ ret = "blocked_not_holder"
    /\ ~call.flag
    /\ call.agent \in DOMAIN agents
    /\ agents[call.agent].agent_class = "lead"
    /\ ClaimsOn(file_claims, Normalized(call.arg)) # {}

\* C26: after a successful deregister(name) the agent is not registered, no
\* file claim has name as holder and name is in no waitlist; the claims and
\* the waitlist entries of every other agent are unchanged, so no released
\* path is granted to a waiter.
C26_DeregisterReleases ==
    [][(call'.op = "deregister" /\ ret' = "ok")
          => /\ call'.agent \notin DOMAIN agents'
             /\ \A c \in file_claims' : c.agent_name # call'.agent
             /\ \A w \in file_waitlist' : w.agent_name # call'.agent
             /\ file_claims' = {c \in file_claims : c.agent_name # call'.agent}
             /\ file_waitlist' = {w \in file_waitlist : w.agent_name # call'.agent}]_vars

\* A holder was deregistered while another agent waited for its path: the
\* waiter is still waiting and the path is unclaimed.
C26_Witness ==
    /\ call.op = "deregister"
    /\ ret = "ok"
    /\ \E w \in file_waitlist : \A c \in file_claims : c.file_path # w.file_path

(***************************************************************************)
(* The waitlist while the clock advances: A and B claim and release one    *)
(* file under two spellings of its path, and repeat blocked claims at      *)
(* later times.                                                            *)
(***************************************************************************)
WaitNames == {"A", "B"}

NextWait ==
    \/ Tick
    \/ \E a \in WaitNames : register(a, "coder", "", "terminal")
    \/ \E a \in WaitNames, f \in RacePaths : claim_file(a, f)
    \/ \E a \in WaitNames, f \in RacePaths : release_file(a, f, FALSE)
    \/ \E a \in WaitNames : deregister(a)

SpecWait == Init /\ [][NextWait]_vars

\* C18: an agent is at most once in any one path's waitlist.
C18_WaitlistUnique ==
    \A w1 \in file_waitlist, w2 \in file_waitlist :
        (w1.file_path = w2.file_path /\ w1.agent_name = w2.agent_name) => w1 = w2

\* A blocked claim_file repeated later than the waitlist entry it had made.
C18_Witness ==
    /\ call.op = "claim_file"
    /\ ret = "blocked_claimed"
    /\ \E w \in file_waitlist : /\ w.file_path = Normalized(call.arg)
                                /\ w.agent_name = call.agent
                                /\ w.added_at < now

(***************************************************************************)
(* The order of a waitlist: a holder and two agents that wait for its      *)
(* path, one of which may leave and come back.                             *)
(***************************************************************************)
FifoNames == {"H", "B", "C"}
FifoPath == Path(TRUE, <<"x">>)

NextFifo ==
    \/ Tick
    \/ \E a \in FifoNames : register(a, "coder", "", "terminal")
    \/ \E a \in FifoNames : claim_file(a, FifoPath)
    \/ release_file("H", FifoPath, FALSE)
    \/ deregister("B")

SpecFifo == Init /\ [][NextFifo]_vars

\* When a, a waiter of path, was first blocked on it since the path's
\* waitlist was last empty: the time of an earlier row of a that was deleted
\* since, else the time of its row.
FirstAt(path, a) ==
    IF \E h \in first_blocked : h.file_path = path /\ h.agent_name = a
    THEN (CHOOSE h \in first_blocked : h.file_path = path /\ h.agent_name = a).first_at
    ELSE (CHOOSE w \in file_waitlist : w.file_path = path /\ w.agent_name = a).added_at

\* C33: a successful release_file empties the path's waitlist and reports
\* its waiters, each once, no waiter before one whose first blocked claim_file
\* on the path since the waitlist was last empty was earlier.
C33_WaitlistFifo ==
    [][(call'.op = "release_file" /\ ret' = "ok" /\ now' = now)
          => LET path == Normalized(call'.arg) IN
             /\ \A w \in file_waitlist' : w.file_path # path
             /\ {out'[i] : i \in DOMAIN out'}
                   = {w.agent_name : w \in {v \in file_waitlist : v.file_path = path}}
             /\ \A i \in DOMAIN out', j \in DOMAIN out' :
                   i < j => /\ out'[i] # out'[j]
                            /\ FirstAt(path, out'[i]) <= FirstAt(path, out'[j])]_vars


(***************************************************************************)
(* The moon_crash flag: set by an accepted send whose text holds the       *)
(* trigger word, read by assign_task, cleared by clear_moon_crash.         *)
(***************************************************************************)
\* clear_moon_crash without the class test: any registered agent passes.
RegisteredCheck(ag, agent_name) ==
    IF agent_name \notin DOMAIN ag THEN "blocked_not_registered" ELSE "ok"

\* The lead-only check of clear_moon_crash.
ClearCheck(ag, agent_name) == LeadCheck(ag, agent_name)

\* UPDATE flags SET value = '0', set_by = ?, set_at = ? WHERE key = 'moon_crash'
ClearFlag(fl, agent_name, t) ==
    {IF f.key = "moon_crash"
     THEN [f EXCEPT !.value = "0", !.set_by = agent_name, !.set_at = t]
     ELSE f : f \in fl}

clear_moon_crash(agent_name) ==
    /\ call' = Call("clear_moon_crash", agent_name, NULL, 0, FALSE)
    /\ IF ClearCheck(agents, agent_name) # "ok"
       THEN Reject(ClearCheck(agents, agent_name))
       ELSE IF ~(\E f \in flags : f.key = "moon_crash" /\ f.value = "1")
       THEN Reject("not_active")
       ELSE /\ flags' = ClearFlag(flags, agent_name, now)
            /\ ret' = "ok"
            /\ out' = <<>>
            /\ UNCHANGED <<now, agentVars, mailVars, planVars, logVars, taskVars,
                           fileVars, procVars>>

CrashNames == {"L", "C"}
CrashClassesOf(a) == IF a = "L" THEN {"lead", "coder"} ELSE {"coder"}

NextCrash ==
    \/ \E a \in CrashNames : \E c \in CrashClassesOf(a) : register(a, c, "", "terminal")
    \/ \E a \in CrashNames : set_context(a)
    \/ \E a \in CrashNames : plan_seq = 0 /\ set_battle_plan(a, "go")
    \/ \E a \in CrashNames : create_task(a, "t", TRUE, <<>>)
    \/ \E m \in Texts : send("C", "L", m, <<>>)
    \/ \E a \in CrashNames : check_inbox(a)
    \/ \E a \in CrashNames : assign_task(a, 1, "C")
    \/ \E a \in CrashNames : clear_moon_crash(a)
    \/ \E a \in CrashNames : deregister(a)
    \/ \E a \in CrashNames : end_session(a)

SpecCrash == Init /\ [][NextCrash]_vars

CrashSet == \E f \in flags : f.key = "moon_crash" /\ f.value = "1"

C22_OnlyLeadClears ==
    [][/\ (CrashSet /\ ~CrashSet')
             => /\ call'.op = "clear_moon_crash"
                /\ call'.agent \in DOMAIN agents
                /\ agents[call'.agent].agent_class = "lead"
       /\ ( /\ call'.op = "clear_moon_crash"
            /\ \/ call'.agent \notin DOMAIN agents
               \/ agents[call'.agent].agent_class # "lead" )
             => /\ ret' \in {"blocked_not_registered", "blocked_not_lead"}
                /\ flags' = flags]_vars

\* With the flag set, an agent that is registered but not a lead called
\* clear_moon_crash and was refused.
C22_Witness ==
    /\ CrashSet
    /\ call.op = "clear_moon_crash"
    /\ call.agent \in DOMAIN agents
    /\ agents[call.agent].agent_class # "lead"
    /\ ret = "blocked_not_lead"


(***************************************************************************)
(* The lead-only tools called by a lead L, a coder C and a name U that is  *)
(* never registered.                                                       *)
(***************************************************************************)
LeadCallers == {"L", "C", "U"}
LeadClassOf(a) == IF a = "L" THEN "lead" ELSE "coder"

LeadOnlyOps ==
    {"set_battle_plan", "update_battle_plan_status", "create_task", "assign_task",
     "close_task", "debrief", "end_session", "clear_moon_crash"}

NextLead ==
    \/ \E a \in {"L", "C"} : register(a, LeadClassOf(a), "", "terminal")
    \/ set_context("C")
    \/ \E a \in LeadCallers : (a = "L" => plan_seq = 0) /\ set_battle_plan(a, "go")
    \/ \E a \in LeadCallers : update_battle_plan_status(a, 1, "completed")
    \/ \E a \in LeadCallers : create_task(a, "t", TRUE, <<>>)
    \/ \E a \in LeadCallers : assign_task(a, 1, "C")
    \/ submit_result("C", 1, "r.md", TRUE)
    \/ \E a \in LeadCallers : close_task(a, 1)
    \/ \E a \in LeadCallers : debrief(a, "debrief.md", TRUE)
    \/ \E a \in LeadCallers : end_session(a)
    \/ \E a \in LeadCallers : clear_moon_crash(a)
    \/ send("C", "L", TextCrash, <<>>)

SpecLead == Init /\ [][NextLead]_vars

\* C25: a lead-only operation called by an unregistered agent, or by an agent
\* whose class is not lead, is rejected and leaves every relation of the store
\* unchanged.
C25_LeadOnlyRejected ==
    [][( /\ call'.op \in LeadOnlyOps
         /\ \/ call'.agent \notin DOMAIN agents
            \/ agents[call'.agent].agent_class # "lead" )
          => /\ ret' # "ok"
             /\ UNCHANGED dbVars]_vars

\* A registered coder called a lead-only operation that a lead could have
\* carried out in that state (a plan is active, a task with a result is open,
\* the flag is set) and was refused.
C25_Witness ==
    /\ call.op \in LeadOnlyOps
    /\ ret = "blocked_not_lead"
    /\ call.agent \in DOMAIN agents
    /\ agents[call.agent].agent_class = "coder"
    /\ \E p \in battle_plan : p.status = "active"
    /\ \E t \in tasks : t.status # "closed" /\ t.result_file # NULL
    /\ CrashSet


(***************************************************************************)
(* The staleness clock while the clock advances: a lead L and a coder C    *)
(* register, C registers again, sets its context and status, writes and    *)
(* reads mail, updates a task, and may be renamed to D.                    *)
(***************************************************************************)
ClockNames == {"L", "C"}
ClockClassOf(a) == IF a = "L" THEN "lead" ELSE "coder"

NextClock ==
    \/ Tick
    \/ \E a \in ClockNames : register(a, ClockClassOf(a), "", "terminal")
    \/ set_context("C")
    \/ set_status("C", "busy")
    \/ plan_seq = 0 /\ set_battle_plan("L", "go")
    \/ task_seq = 0 /\ create_task("L", "t", TRUE, <<>>)
    \/ update_task("C", 1, "in_progress", "wip", "")
    \/ msg_seq = 0 /\ send("C", "L", TextHi, <<>>)
    \/ check_inbox("C")
    \/ rename("C", "D")

SpecClock == Init /\ [][NextClock]_vars

\* C40: set_status and set_context under a name that is not registered
\* return a not-found failure and change no table.
C40_UnknownNameRejected ==
    [][(/\ call'.op \in {"set_status", "set_context"}
        /\ call'.agent \notin DOMAIN agents
        /\ now' = now)
          => /\ ret' = "not_found"
             /\ UNCHANGED dbVars]_vars

\* C28: while an agent stays registered its context_updated_at is changed
\* only by set_context for that agent; a rename carries the value over to the
\* new name.
C28_OnlySetContextResets ==
    [][/\ \A a \in DOMAIN agents \cap DOMAIN agents' :
             agents'[a].context_updated_at # agents[a].context_updated_at
             => call'.op = "set_context" /\ call'.agent = a
       /\ (call'.op = "rename" /\ ret' = "ok" /\ now' = now)
             => agents'[call'.arg].context_updated_at
                   = agents[call'.agent].context_updated_at]_vars

\* An agent that set its context at an earlier time registered again: the
\* row's last_seen is the time of the call, its context_updated_at is not.
C28_Witness ==
    /\ call.op = "register"
    /\ ret = "ok"
    /\ now > 0
    /\ call.agent \in DOMAIN agents
    /\ agents[call.agent].last_seen = At(now)
    /\ agents[call.agent].context_updated_at = At(0)


(***************************************************************************)
(* Registration with models: A and B register and register again under a   *)
(* restricted class (coder, lead) or an unrestricted one (builder), with   *)
(* no model, an allowed model or a model outside the allow-list.           *)
(***************************************************************************)
ModelNames == {"A", "B"}
ModelClasses == {"coder", "lead", "builder"}
ModelArgs == {"", "gemini-pro", "haiku"}

NextModels ==
    \/ Tick
    \/ \E a \in ModelNames, c \in ModelClasses, mdl \in ModelArgs :
          register(a, c, mdl, "terminal")
    \/ \E a \in ModelNames : deregister(a)

SpecModels == Init /\ [][NextModels]_vars

\* C29: every registered agent whose class has a non-empty allow-list and
\* whose stored model is non-empty has a stored model in that allow-list.
C29_StoredModelAllowed ==
    \A a \in DOMAIN agents :
        (CLASS_MODEL_WHITELIST(agents[a].agent_class) # {}
            /\ agents[a].model \notin {NULL, ""})
        => agents[a].model \in CLASS_MODEL_WHITELIST(agents[a].agent_class)


(***************************************************************************)
(* purge_inbox                                                             *)
(***************************************************************************)
\* now - timedelta(hours=older_than_hours)
PurgeCutoff(t, older_than_hours) == t - older_than_hours * 3600

\* DELETE FROM messages WHERE to_agent = ? AND timestamp < ?
PurgedMessages(msgs, agent_name, cutoff) ==
    {m \in msgs : ~(m.to_agent = agent_name /\ m.timestamp < cutoff)}

\* INSERT OR IGNORE INTO broadcast_reads SELECT ?, id FROM messages
\* WHERE to_agent = 'all' AND timestamp < ?
DismissedReads(reads, msgs, agent_name, cutoff) ==
    reads \cup {<<agent_name, m.id>> :
                   m \in {x \in msgs : x.to_agent = "all" /\ x.timestamp < cutoff}}

\* DELETE FROM broadcast_reads WHERE agent_name = ?
\* AND message_id NOT IN (SELECT id FROM messages)
WithoutDangling(reads, msgs, agent_name) ==
    {r \in reads : ~(r[1] = agent_name /\ r[2] \notin {m.id : m \in msgs})}

purge_inbox(agent_name, older_than_hours) ==
    LET cutoff == PurgeCutoff(now, older_than_hours)
        kept == PurgedMessages(messages, agent_name, cutoff)
    IN
    /\ call' = Call("purge_inbox", agent_name, NULL, older_than_hours, FALSE)
    /\ messages' = kept
    /\ broadcast_reads' =
          WithoutDangling(DismissedReads(broadcast_reads, kept, agent_name, cutoff),
                          kept, agent_name)
    /\ ret' = "ok"
    /\ out' = <<>>
    /\ UNCHANGED <<now, agentVars, msg_seq, planVars, logVars, taskVars, fileVars,
                   flagVars, procVars>>

(***************************************************************************)
(* Purging while the clock advances: L (lead) and C (coder) write to each  *)
(* other and broadcast, read their mail, and purge_inbox is called with    *)
(* their names and with the name "all".                                    *)
(***************************************************************************)
PurgeNames == {"L", "C"}
PurgeClassOf(a) == IF a = "L" THEN "lead" ELSE "coder"
PurgeArgs == {"L", "C", "all"}
PurgeHours == {0, 2}
PurgeSends == {<<"C", "L">>, <<"L", "all">>}

NextPurge ==
    \/ Tick
    \/ \E a \in PurgeNames : register(a, PurgeClassOf(a), "", "terminal")
    \/ \E a \in PurgeNames : set_context(a)
    \/ plan_seq = 0 /\ set_battle_plan("L", "go")
    \/ \E c \in PurgeSends : send(c[1], c[2], TextHi, <<>>)
    \/ \E a \in PurgeNames : check_inbox(a)
    \/ \E a \in PurgeArgs, h \in PurgeHours : purge_inbox(a, h)

SpecPurge == Init /\ [][NextPurge]_vars

\* C30: for every agent_name, purge_inbox(agent_name, h) deletes only direct
\* messages addressed to agent_name that are older than the cutoff (no
\* broadcast, no message addressed to another agent) and adds broadcast-read
\* entries only for agent_name.
C30_PurgeOnlyOwnDirect ==
    [][(call'.op = "purge_inbox" /\ now' = now)
          => /\ \A m \in messages \ messages' :
                   /\ m.to_agent = call'.agent
                   /\ m.to_agent # "all"
                   /\ m.timestamp < now - call'.id * 3600
             /\ \A r \in broadcast_reads' \ broadcast_reads : r[1] = call'.agent]_vars


(***************************************************************************)
(* The activity counter: a lead L and a coder C work on one task;          *)
(* update_task is called with and without a status and a progress note,    *)
(* with the status closed and with an unknown status.                      *)
(***************************************************************************)
ActivityNames == {"L", "C"}
ActivityClassOf(a) == IF a = "L" THEN "lead" ELSE "coder"
ActivityStatusArgs == {"", "in_progress", "closed", "bogus"}
ActivityProgressArgs == {"", "wip"}

NextActivity ==
    \/ \E a \in ActivityNames : register(a, ActivityClassOf(a), "", "terminal")
    \/ plan_seq = 0 /\ set_battle_plan("L", "go")
    \/ create_task("L", "t", TRUE, <<>>)
    \/ \E a \in ActivityNames, i \in 1..MaxTasks, st \in ActivityStatusArgs,
          pr \in ActivityProgressArgs : update_task(a, i, st, pr, "")
    \/ \E i \in 1..MaxTasks : assign_task("L", i, "C")
    \/ \E i \in 1..MaxTasks : submit_result("C", i, "r.md", TRUE)
    \/ \E i \in 1..MaxTasks : close_task("L", i)
    \/ deregister("C")

SpecActivity == Init /\ [][NextActivity]_vars

\* C32: a task's activity_count starts at 0, is raised by exactly 1 by every
\* successful update_task on that task, is unchanged by a rejected
\* update_task, and is never decreased or otherwise changed by any operation.
C32_ActivityCount ==
    [][/\ \A u \in tasks' :
             (\A t \in tasks : t.id # u.id) => u.activity_count = 0
       /\ \A t \in tasks : \E u \in tasks' :
             /\ u.id = t.id
             /\ u.activity_count =
                   IF call'.op = "update_task" /\ ret' = "ok" /\ call'.id = t.id
                   THEN t.activity_count + 1
                   ELSE t.activity_count
       /\ (call'.op = "update_task" /\ ret' # "ok") => tasks' = tasks]_vars

\* update_task with neither a status nor a progress note succeeded and the
\* task's counter is 1.
C32_Witness ==
    /\ call.op = "update_task"
    /\ call.arg = ""
    /\ ret = "ok"
    /\ \E t \in tasks : t.id = call.id /\ t.activity_count = 1 /\ t.progress = NULL

=============================================================================
